---- MODULE Spec2Model ----
(***************************************************************************)
(* Student ranking and aggregation engine of watcher_railway.              *)
(*                                                                         *)
(* The record store (students, projects, locationstats, feedbacks,         *)
(* patronages) is a read-only snapshot.  One behaviour is one client       *)
(* session: a fixed query string (filter, order, page size) is paged       *)
(* through by repeated calls of one ranking function, either one of the    *)
(* N1QL aggregators of src/controllers/sortBy.js or the aggregation        *)
(* pipeline of GET /api/students in src/routes/students.js.                *)
(*                                                                         *)
(* Neither store fixes the order of rows whose ORDER BY / $sort key is     *)
(* equal, so every query execution draws its own order among ties.         *)
(***************************************************************************)
EXTENDS Integers, Sequences, FiniteSets, TLC

VARIABLES students, projects, locationstats, feedbacks, patronages,
          query, call, resp, acc, io, server, http, codec

vars == <<students, projects, locationstats, feedbacks, patronages,
          query, call, resp, acc, io, server, http, codec>>

\* The application around the ranking engine: the server's authentication
\* data, the HTTP request being served, the duration text being converted.
app == <<server, http, codec>>

(***************************************************************************)
(* Bounds of the model.                                                    *)
(***************************************************************************)
NumStudents == 2
MaxProjects == 2
MaxFeedbacks == 2
MaxMonths == 2
MaxLimit == 2
MaxPage == 2

(***************************************************************************)
(* JavaScript / N1QL null for numeric values that are never negative       *)
(* (campus id, rating, parsed duration part, log_time).                    *)
(***************************************************************************)
NULL == -1

Min(a, b) == IF a < b THEN a ELSE b

(***************************************************************************)
(* Strings that the code takes apart are sequences of one-character        *)
(* strings.                                                                *)
(***************************************************************************)
Digits == <<"0", "1", "2", "3", "4", "5", "6", "7", "8", "9">>

IsDigit(c) == \E i \in 1..10 : Digits[i] = c

DigitVal(c) == (CHOOSE i \in 1..10 : Digits[i] = c) - 1

RECURSIVE DigitsVal(_)
DigitsVal(cs) ==
  IF cs = <<>> THEN 0
  ELSE 10 * DigitsVal(SubSeq(cs, 1, Len(cs) - 1)) + DigitVal(cs[Len(cs)])

\* Length of the longest prefix of cs made of decimal digits.
RECURSIVE DigitPrefix(_)
DigitPrefix(cs) ==
  IF cs = <<>> \/ ~IsDigit(cs[1]) THEN 0 ELSE 1 + DigitPrefix(Tail(cs))

\* String.prototype.split / N1QL SPLIT on a one-character separator.
RECURSIVE Split(_, _)
Split(cs, sep) ==
  IF \A i \in 1..Len(cs) : cs[i] # sep THEN <<cs>>
  ELSE LET k == CHOOSE i \in 1..Len(cs) :
                   cs[i] = sep /\ \A j \in 1..(i - 1) : cs[j] # sep
       IN <<SubSeq(cs, 1, k - 1)>> \o Split(SubSeq(cs, k + 1, Len(cs)), sep)

\* N1QL TONUMBER of a string: the number it denotes, NULL when it denotes none.
TONUMBER(cs) ==
  IF cs # <<>> /\ DigitPrefix(cs) = Len(cs) THEN DigitsVal(cs) ELSE NULL

\* Array element access: MISSING (here NULL) outside the array.
Elem(parts, i) == IF i <= Len(parts) THEN TONUMBER(parts[i]) ELSE NULL

\* Arithmetic of N1QL: an operand that is no number makes the result NULL.
Plus(a, b) == IF a = NULL \/ b = NULL THEN NULL ELSE a + b
Times(a, b) == IF a = NULL \/ b = NULL THEN NULL ELSE a * b

\* TONUMBER(SPLIT(d, ":")[0]) * 3600 + TONUMBER(SPLIT(d, ":")[1]) * 60
\*   + TONUMBER(SPLIT(d, ":")[2])
DurationSeconds(d) ==
  LET parts == Split(d, ":")
  IN Plus(Plus(Times(Elem(parts, 1), 3600), Times(Elem(parts, 2), 60)),
          Elem(parts, 3))

\* Sum of a function's values over a finite domain.
RECURSIVE SumOver(_, _)
SumOver(f, D) ==
  IF D = {} THEN 0
  ELSE LET x == CHOOSE y \in D : TRUE IN f[x] + SumOver(f, D \ {x})

LowerLetters ==
  <<"a", "b", "c", "d", "e", "f", "g", "h", "i", "j", "k", "l", "m", "n", "o",
    "p", "q", "r", "s", "t", "u", "v", "w", "x", "y", "z">>

UpperLetters ==
  <<"A", "B", "C", "D", "E", "F", "G", "H", "I", "J", "K", "L", "M", "N", "O",
    "P", "Q", "R", "S", "T", "U", "V", "W", "X", "Y", "Z">>

IsLower(c) == \E i \in 1..Len(LowerLetters) : LowerLetters[i] = c

IsUpper(c) == \E i \in 1..Len(UpperLetters) : UpperLetters[i] = c

\* Whitespace: what \s of a regular expression matches and trim() removes.
IsSpace(c) == c \in {" ", "\t", "\n"}

\* toLowerCase() / LOWER() / the 'i' option, on one character and on a text.
ToLower(c) ==
  IF IsUpper(c)
  THEN LowerLetters[CHOOSE i \in 1..Len(UpperLetters) : UpperLetters[i] = c]
  ELSE c

LowerCase(cs) == [i \in 1..Len(cs) |-> ToLower(cs[i])]

\* The pattern occurs somewhere in the text, a character of wild standing for
\* any one character of the text (LIKE '%pattern%' with wild = {"_"}, an
\* unanchored regular expression of plain characters with wild = {"."}).
Contains(text, pat, wild) ==
  \E k \in 0..(Len(text) - Len(pat)) :
    \A i \in 1..Len(pat) : pat[i] \in wild \/ pat[i] = text[k + i]


(***************************************************************************)
(* The record store.                                                       *)
(***************************************************************************)
AllLogins == <<"alice", "bob", "carol">>

Logins == {AllLogins[i] : i \in 1..NumStudents}

\* Position of a login in the alphabetical order (logins are unique).
LoginRank(l) == CHOOSE i \in 1..Len(AllLogins) : AllLogins[i] = l

\* The characters of a login.
LoginText(l) ==
  CASE l = "alice" -> <<"a", "l", "i", "c", "e">>
    [] l = "bob" -> <<"b", "o", "b">>
    [] OTHER -> <<"c", "a", "r", "o", "l">>

\* The name fields of a student: first_name, last_name, displayname, email.
NamesOf(l) ==
  CASE l = "alice" ->
         [first_name |-> <<"A", "n", "n">>, last_name |-> <<"L", "e", "e">>,
          displayname |-> <<"A", "n", "n", " ", "L", "e", "e">>,
          email |-> <<"a", ".", "l", "@", "x", ".", "i", "o">>]
    [] l = "bob" ->
         [first_name |-> <<"R", "o", "b">>, last_name |-> <<"K", "i", "m">>,
          displayname |-> <<"B", "o", "b", " ", "K", "i", "m">>,
          email |-> <<"b", "_", "k", "@", "x", ".", "i", "o">>]
    [] OTHER ->
         [first_name |-> <<"C", "a", "l">>, last_name |-> <<"O", "h">>,
          displayname |-> <<"C", "a", "l", " ", "O", "h">>,
          email |-> <<"c", "-", "o", "@", "x", ".", "i", "o">>]

\* A Student document with the fields the ranking reads.
DefaultStudent(l) ==
  NamesOf(l) @@
  [login |-> l, campusId |-> 1, level |-> 1, wallet |-> 0,
   correction_point |-> 0, pool_month |-> <<"m", "a", "r", "c", "h">>,
   pool_year |-> <<"2", "0", "2", "4">>,
   grade |-> "Cadet", active |-> TRUE, alumni |-> FALSE, staff |-> FALSE,
   blackholed |-> FALSE, sinker |-> FALSE, freeze |-> FALSE,
   is_test |-> FALSE, is_piscine |-> FALSE]

\* Project documents: status is one of the schema's enum values, score -42 is
\* the cheating sentinel.
ProjectKinds ==
  <<[score |-> 80, status |-> "success"],
    [score |-> 0, status |-> "in_progress"],
    [score |-> -42, status |-> "fail"]>>

\* The project histories of one student: up to MaxProjects records, each of
\* one of the kinds (as a bag: non-decreasing kind indexes).
ProjectBags ==
  {b \in UNION {[1..n -> 1..Len(ProjectKinds)] : n \in 0..MaxProjects} :
     \A i \in 1..(Len(b) - 1) : b[i] <= b[i + 1]}

ProjectsOf(l, b) ==
  {[login |-> l, project |-> i, score |-> ProjectKinds[b[i]].score,
    status |-> ProjectKinds[b[i]].status] : i \in 1..Len(b)}

\* LocationStats documents: months maps a month name to its total duration
\* and its per-day durations, both "HH:MM:SS".
MonthNames == <<"2024-03", "2024-04", "2024-05">>

MonthDurations ==
  <<(<<"0", "2", ":", "3", "0", ":", "0", "0">>),
    (<<"0", "1", ":", "0", "0", ":", "0", "0">>),
    (<<"0", "0", ":", "0", "0", ":", "4", "5">>)>>

MonthsMap(k) ==
  [mn \in {MonthNames[i] : i \in 1..k} |->
     LET i == CHOOSE j \in 1..k : MonthNames[j] = mn
     IN [totalDuration |-> MonthDurations[i],
         days |-> [d \in {"01"} |-> MonthDurations[i]]]]

\* k = NULL: the student has no LocationStats document; k = 0 is the
\* schema's default, an empty months map.
LocationsOf(l, campus, k) ==
  IF k = NULL THEN {}
  ELSE {[login |-> l, campusId |-> campus, months |-> MonthsMap(k)]}

\* Feedback documents; rating is NULL or a mark.
RatingValues == {NULL, 2, 5}

FeedbackBags ==
  {b \in UNION {[1..n -> RatingValues] : n \in 0..MaxFeedbacks} :
     \A i \in 1..(Len(b) - 1) : b[i] <= b[i + 1]}

FeedbacksOf(l, campus, b) ==
  {[id |-> i, login |-> l, evaluated |-> l, campusId |-> campus,
    rating |-> b[i]] : i \in 1..Len(b)}

\* Patronage documents, one per student, from the mentor -> mentee edges.
Edges == {e \in Logins \X Logins : e[1] # e[2]}

PatronagesOf(E) ==
  {[login |-> l,
    godfathers |-> {e[1] : e \in {x \in E : x[2] = l}},
    children |-> {e[2] : e \in {x \in E : x[1] = l}}] : l \in Logins}

\* The joined data every student has where a snapshot family does not vary it.
DefaultProjects == UNION {ProjectsOf(l, <<1, 3>>) : l \in Logins}
DefaultLocations == UNION {LocationsOf(l, 1, 1) : l \in Logins}
DefaultFeedbacks == UNION {FeedbacksOf(l, 1, <<5>>) : l \in Logins}
DefaultPatronages ==
  PatronagesOf({e \in Edges : LoginRank(e[2]) = (LoginRank(e[1]) % NumStudents) + 1})

(***************************************************************************)
(* The query string of the session.  campusId, search, limit and the pool's *)
(* month and year are the raw text of the parameter ("" when absent); the  *)
(* others are the validated values.                                        *)
(***************************************************************************)
\* No pool: both query parameters absent; also what validatePool returns for
\* them (null).
NoPool == [month |-> <<>>, year |-> <<>>]

Orders == {"asc", "desc"}

\* The decimal notation of a natural number.
RECURSIVE NumText(_)
NumText(n) ==
  IF n < 10 THEN <<Digits[n + 1]>>
  ELSE NumText(n \div 10) \o <<Digits[(n % 10) + 1]>>

Limits == {NumText(n) : n \in 1..MaxLimit}

PlainQueries ==
  {[campusId |-> <<>>, search |-> <<>>, status |-> "none", pool |-> NoPool,
    order |-> o, limit |-> n] : o \in Orders, n \in Limits}

CampusQueries ==
  {[q EXCEPT !.campusId = c] :
     q \in PlainQueries, c \in {<<>>, <<"a", "l", "l">>, <<"0">>, <<"1">>}}

\* Further raw campusId texts: digits followed by something else, a negative
\* number, a number above 999999, no number.
CampusTexts ==
  {<<"1", "x">>, <<"1", ".", "5">>, <<"-", "1">>,
   <<"1", "0", "0", "0", "0", "0", "0">>, <<"a", "b", "c">>,
   <<"9", "9", "9", "9", "9", "9">>}

CampusTextQueries ==
  {[q EXCEPT !.campusId = c, !.limit = NumText(MaxLimit)] :
     q \in {p \in PlainQueries : p.order = "asc"}, c \in CampusTexts}

\* "graduated" is a status that validateStatus does not know.
StatusQueries ==
  {[q EXCEPT !.status = s] :
     q \in {p \in PlainQueries : p.order = "asc"},
     s \in {"none", "active", "cadet", "transcender", "graduated"}}

NoCall == [fn |-> "none", sort |-> "none", page |-> 0]

\* No response yet.  body holds the fields of an error response's JSON body,
\* thrown the message of the error an aggregator's promise was rejected with.
NoResp ==
  [status |-> 0, students |-> <<>>,
   pagination |-> [total |-> 0, page |-> 0, limit |-> 0, totalPages |-> 0],
   body |-> <<>>, thrown |-> ""]

NoAcc == [pages |-> 0, logins |-> <<>>]

\* What the current invocation has done to the store: the state of its ranked
\* query and of its count query ("none": not issued, "pending", "done",
\* "failed"), the number of queries it has issued, and the number of event-log
\* writes (logEvent calls).
\* error is the message of the first query that failed ("" when none has).
NoIo ==
  [ranked |-> "none", count |-> "none", issued |-> 0, events |-> 0,
   error |-> ""]

\* No authentication data: the ranking engine is called directly.
NoServer ==
  [revision |-> "none", auth |-> "none", valid |-> {}, sessions |-> {},
   bans |-> {}]

NoReq == [method |-> "", path |-> "", scheme |-> "", token |-> "", body |-> ""]

\* No HTTP request is being served.  pc is the place of the request in the
\* middleware chain, by the component that sent the response, handler the
\* route handler that ran, nexts and sent the next() calls and the responses
\* of authenticate, fault the store or network operation that failed in it.
NoHttp ==
  [pc |-> "idle", req |-> NoReq, now |-> 0, user |-> "", accepted |-> FALSE,
   nexts |-> 0, sent |-> 0, fault |-> "", handler |-> "none", by |-> "",
   status |-> 0, body |-> <<>>]

\* No duration text is being converted.
NoCodec ==
  [stage |-> "idle", seconds |-> NULL,
   text |-> [null |-> TRUE, chars |-> <<>>], minutes |-> NULL,
   formatted |-> <<>>, reparsed |-> NULL]

InitSession ==
  /\ call = NoCall
  /\ resp = NoResp
  /\ acc = NoAcc
  /\ io = NoIo
  /\ server = NoServer
  /\ http = NoHttp
  /\ codec = NoCodec

\* Snapshots that differ in campus and level.
InitCampus ==
  /\ \E c \in [Logins -> {0, 1}], lv \in [Logins -> {1, 2}] :
       students = [l \in Logins |->
                     [DefaultStudent(l) EXCEPT !.campusId = c[l], !.level = lv[l]]]
  /\ projects = DefaultProjects
  /\ locationstats = UNION {LocationsOf(l, students[l].campusId, 1) : l \in Logins}
  /\ feedbacks = UNION {FeedbacksOf(l, students[l].campusId, <<5>>) : l \in Logins}
  /\ patronages = DefaultPatronages
  /\ query \in CampusQueries \cup CampusTextQueries
  /\ InitSession

\* Snapshots that differ in grade and in the active flag.
InitStatus ==
  /\ \E g \in [Logins -> {"Cadet", "cadet", "Transcender", "transcender"}],
        a \in [Logins -> BOOLEAN] :
       students = [l \in Logins |->
                     [DefaultStudent(l) EXCEPT !.grade = g[l], !.active = a[l]]]
  /\ projects = DefaultProjects
  /\ locationstats = DefaultLocations
  /\ feedbacks = DefaultFeedbacks
  /\ patronages = DefaultPatronages
  /\ query \in StatusQueries
  /\ InitSession

\* Snapshots that differ in the project records.
InitProjects ==
  /\ students = [l \in Logins |-> DefaultStudent(l)]
  /\ \E b \in [Logins -> ProjectBags] :
       projects = UNION {ProjectsOf(l, b[l]) : l \in Logins}
  /\ locationstats = DefaultLocations
  /\ feedbacks = DefaultFeedbacks
  /\ patronages = DefaultPatronages
  /\ query \in PlainQueries
  /\ InitSession

\* Snapshots that differ in the location history and in the number of
\* score -42 records.
InitLocations ==
  /\ students = [l \in Logins |-> DefaultStudent(l)]
  /\ \E n \in [Logins -> 0..MaxProjects] :
       projects = UNION {ProjectsOf(l, [i \in 1..n[l] |-> 3]) : l \in Logins}
  /\ \E k \in [Logins -> {NULL} \cup 0..MaxMonths] :
       locationstats = UNION {LocationsOf(l, 1, k[l]) : l \in Logins}
  /\ feedbacks = DefaultFeedbacks
  /\ patronages = DefaultPatronages
  /\ query \in PlainQueries
  /\ InitSession

\* Snapshots that differ in the feedback records.
InitFeedbacks ==
  /\ students = [l \in Logins |-> DefaultStudent(l)]
  /\ projects = DefaultProjects
  /\ locationstats = DefaultLocations
  /\ \E b \in [Logins -> FeedbackBags] :
       feedbacks = UNION {FeedbacksOf(l, 1, b[l]) : l \in Logins}
  /\ patronages = DefaultPatronages
  /\ query \in PlainQueries
  /\ InitSession

\* Snapshots that differ in the mentorship graph.
InitPatronages ==
  /\ students = [l \in Logins |-> DefaultStudent(l)]
  /\ projects = DefaultProjects
  /\ locationstats = DefaultLocations
  /\ feedbacks = DefaultFeedbacks
  /\ \E E \in SUBSET Edges : patronages = PatronagesOf(E)
  /\ query \in PlainQueries
  /\ InitSession

\* The single-flag statuses and the flag each one tests.
FlagStatuses ==
  {"active", "inactive", "staff", "alumni", "blackholed", "sinker", "freeze",
   "test"}

Flags ==
  {"active", "alumni", "staff", "blackholed", "sinker", "freeze", "is_test"}

OwnFlag(status) ==
  CASE status = "inactive" -> "active"
    [] status = "test" -> "is_test"
    [] OTHER -> status

FlagQueries ==
  {[q EXCEPT !.status = s, !.limit = NumText(MaxLimit)] :
     q \in {p \in PlainQueries : p.order = "asc"}, s \in FlagStatuses}

\* Snapshots that differ in the status flags: every student has any value of
\* the flag the requested status tests, and at most one other flag set.
InitFlags ==
  /\ query \in FlagQueries
  /\ \E S \in [Logins -> SUBSET Flags] :
       /\ \A l \in Logins : Cardinality(S[l] \ {OwnFlag(query.status)}) <= 1
       /\ students = [l \in Logins |->
                        [f \in Flags |-> f \in S[l]] @@ DefaultStudent(l)]
  /\ projects = DefaultProjects
  /\ locationstats = DefaultLocations
  /\ feedbacks = DefaultFeedbacks
  /\ patronages = DefaultPatronages
  /\ InitSession

\* substring(0, 100) of validateSearch.
MaxSearchLength == 100

\* The raw search texts of a session.
SearchTexts ==
  {<<>>,
   <<"A", "L", "I">>,
   <<"a", "n", "n">>,
   <<"r", "o", "b">>,
   <<"a", ".", "l">>,
   <<"a", ".", "i">>,
   <<"b", "_", "k">>,
   <<"b", "_", "b">>,
   <<" ", "b", "o", "%", "b", " ">>,
   <<"z", "z">>,
   <<"b", "o", "\t", "b">>,
   <<"'", ";", "$">>,
   [i \in 1..(MaxSearchLength + 2) |-> "z"]}

SearchQueries ==
  {[q EXCEPT !.search = x, !.limit = NumText(MaxLimit)] :
     q \in {p \in PlainQueries : p.order = "asc"}, x \in SearchTexts}

\* Sessions that differ in the search text, over students that differ in
\* level.
InitSearch ==
  /\ \E lv \in [Logins -> {1, 2}] :
       students = [l \in Logins |-> [DefaultStudent(l) EXCEPT !.level = lv[l]]]
  /\ projects = DefaultProjects
  /\ locationstats = DefaultLocations
  /\ feedbacks = DefaultFeedbacks
  /\ patronages = DefaultPatronages
  /\ query \in SearchQueries
  /\ InitSession

\* The raw poolYear and poolMonth texts of a session.
YearTexts ==
  {<<>>,
   <<"2", "0", "2", "4">>,
   <<"2", "0", "2", "3">>,
   <<"2", "0", "2", "4", "x">>,
   <<"1", "9", "9", "9">>,
   <<"2", "1", "0", "1">>,
   <<"y", "e", "a", "r">>}

MonthTexts ==
  {<<>>,
   <<"m", "a", "r", "c", "h">>,
   <<"M", "a", "r", "c", "h">>,
   <<"m", "a", "y">>,
   <<"3">>,
   <<"1", "2", "3">>,
   <<"m", "a", "r">>}

PoolQueries ==
  {[q EXCEPT !.pool = [month |-> m, year |-> y], !.limit = NumText(MaxLimit)] :
     q \in {p \in PlainQueries : p.order = "asc"},
     m \in MonthTexts, y \in YearTexts}

\* The pools of the students of a snapshot.
StudentPools ==
  {[month |-> m, year |-> y] :
     m \in {<<"m", "a", "r", "c", "h">>, <<"m", "a", "y">>, <<"3">>},
     y \in {<<"2", "0", "2", "4">>, <<"2", "0", "2", "3">>}}

\* Sessions that differ in the pool parameters, over students that differ in
\* pool month and pool year.
InitPool ==
  /\ \E pl \in [Logins -> StudentPools] :
       students = [l \in Logins |->
                     [DefaultStudent(l) EXCEPT !.pool_month = pl[l].month,
                                               !.pool_year = pl[l].year]]
  /\ projects = DefaultProjects
  /\ locationstats = DefaultLocations
  /\ feedbacks = DefaultFeedbacks
  /\ patronages = DefaultPatronages
  /\ query \in PoolQueries
  /\ InitSession

\* The raw limit texts of a session.
LimitTexts ==
  {<<>>, <<"a", "b", "c">>, <<"0">>, <<"-", "3">>, <<"5", "0">>, <<"5", "1">>,
   <<"5", "0", "0">>, <<"5", "0", "1">>, <<"7", "x">>}

LimitQueries ==
  {[q EXCEPT !.limit = x] :
     q \in {p \in PlainQueries : p.order = "asc"}, x \in LimitTexts}

\* Sessions that differ in the limit text, over students that differ in
\* level.
InitPaging ==
  /\ \E lv \in [Logins -> {1, 2}] :
       students = [l \in Logins |-> [DefaultStudent(l) EXCEPT !.level = lv[l]]]
  /\ projects = DefaultProjects
  /\ locationstats = DefaultLocations
  /\ feedbacks = DefaultFeedbacks
  /\ patronages = DefaultPatronages
  /\ query \in LimitQueries
  /\ InitSession

\* Duration texts that are not HH:MM:SS with numeric parts.
MalformedDurations ==
  {<<"a", "b", ":", "3", "0", ":", "0", "0">>,
   <<"1", "2", ":", "3", "0">>,
   <<>>}

\* A LocationStats document of k months whose first month (total and day)
\* holds the duration text d.
MalformedLocationsOf(l, campus, k, d) ==
  {[login |-> l, campusId |-> campus,
    months |-> [mn \in DOMAIN MonthsMap(k) |->
                  IF mn = MonthNames[1]
                  THEN [totalDuration |-> d, days |-> [x \in {"01"} |-> d]]
                  ELSE MonthsMap(k)[mn]]]}

\* Snapshots in which one student's location record holds a malformed
\* duration.
InitMalformed ==
  /\ students = [l \in Logins |-> DefaultStudent(l)]
  /\ projects = DefaultProjects
  /\ \E bad \in Logins, k \in 1..MaxMonths, d \in MalformedDurations :
       locationstats =
         MalformedLocationsOf(bad, 1, k, d) \cup
           UNION {LocationsOf(l, 1, 1) : l \in Logins \ {bad}}
  /\ feedbacks = DefaultFeedbacks
  /\ patronages = DefaultPatronages
  /\ query \in PlainQueries
  /\ InitSession

Init ==
  \/ InitFlags
  \/ InitMalformed
  \/ InitPaging
  \/ InitPool
  \/ InitSearch
  \/ InitCampus
  \/ InitStatus
  \/ InitProjects
  \/ InitLocations
  \/ InitFeedbacks
  \/ InitPatronages


(***************************************************************************)
(* src/utils/validators.js                                                 *)
(***************************************************************************)
NaN == [nan |-> TRUE, val |-> 0]

\* parseInt(text, 10): leading blanks, an optional sign, then the longest
\* run of digits; NaN when there is no digit.
RECURSIVE ParseInt(_)
ParseInt(cs) ==
  IF cs = <<>> THEN NaN
  ELSE IF cs[1] = " " THEN ParseInt(Tail(cs))
  ELSE LET neg == cs[1] = "-"
           body == IF cs[1] \in {"-", "+"} THEN Tail(cs) ELSE cs
           n == DigitPrefix(body)
           v == DigitsVal(SubSeq(body, 1, n))
       IN IF n = 0 THEN NaN ELSE [nan |-> FALSE, val |-> IF neg THEN 0 - v ELSE v]

\* ok = FALSE: the validator throws.
validateCampusId(campusId) ==
  IF campusId = <<>> \/ campusId = <<"a", "l", "l">>
  THEN [ok |-> TRUE, value |-> NULL]
  ELSE LET parsed == ParseInt(campusId)
       IN IF parsed.nan \/ parsed.val < 0 \/ parsed.val > 999999
          THEN [ok |-> FALSE, value |-> NULL]
          ELSE [ok |-> TRUE, value |-> parsed.val]

\* A limit validator without the upper clamp.
validateLimitNoMax(limit) ==
  LET parsed == ParseInt(limit)
  IN IF parsed.nan \/ parsed.val < 1 THEN 50
     ELSE parsed.val

\* The default 50 for no number or a number below 1, at most 500.
validateLimit(limit) ==
  LET parsed == ParseInt(limit)
  IN IF parsed.nan \/ parsed.val < 1 THEN 50
     ELSE IF parsed.val > 500 THEN 500
     ELSE parsed.val

\* parseInt(req.query.page, 10) || 1
validatePage(page) ==
  LET parsed == ParseInt(page)
  IN IF parsed.nan \/ parsed.val = 0 THEN 1 ELSE parsed.val

HandlerSortFields ==
  {"login", "level", "wallet", "correction_point", "project_count",
   "cheat_count", "godfather_count", "children_count", "log_time",
   "feedback_count", "avg_rating"}

allowedFields ==
  {"login", "level", "wallet", "correction_point", "first_name", "last_name",
   "displayname", "pool_month", "pool_year", "project_count", "cheat_count",
   "godfather_count", "children_count", "log_time", "evo_performance",
   "feedback_count", "avg_rating"}

validateSort(sort) == IF sort \notin allowedFields THEN "login" ELSE sort

validMonths ==
  {<<"j", "a", "n", "u", "a", "r", "y">>,
   <<"f", "e", "b", "r", "u", "a", "r", "y">>,
   <<"m", "a", "r", "c", "h">>,
   <<"a", "p", "r", "i", "l">>,
   <<"m", "a", "y">>,
   <<"j", "u", "n", "e">>,
   <<"j", "u", "l", "y">>,
   <<"a", "u", "g", "u", "s", "t">>,
   <<"s", "e", "p", "t", "e", "m", "b", "e", "r">>,
   <<"o", "c", "t", "o", "b", "e", "r">>,
   <<"n", "o", "v", "e", "m", "b", "e", "r">>,
   <<"d", "e", "c", "e", "m", "b", "e", "r">>}

\* /^\d{1,2}$/.test(month)
OneOrTwoDigits(cs) == Len(cs) \in {1, 2} /\ DigitPrefix(cs) = Len(cs)

\* A pool validator that lets a month pass without a year.
validatePoolMonthAlone(year, month) ==
  IF month = <<>> /\ year = <<>> THEN [ok |-> TRUE, value |-> NoPool]
  ELSE IF month = <<>> THEN [ok |-> FALSE, value |-> NoPool]
  ELSE IF LowerCase(month) \notin validMonths /\ ~OneOrTwoDigits(month)
       THEN [ok |-> FALSE, value |-> NoPool]
  ELSE LET yearNum == ParseInt(year)
       IN IF year # <<>> /\ (yearNum.nan \/ yearNum.val < 2000 \/ yearNum.val > 2100)
          THEN [ok |-> FALSE, value |-> NoPool]
          ELSE [ok |-> TRUE,
                value |-> [month |-> LowerCase(month), year |-> year]]

\* ok = FALSE: the validator throws; value = NoPool: it returns null.
validatePool(year, month) ==
  IF month = <<>> /\ year = <<>> THEN [ok |-> TRUE, value |-> NoPool]
  ELSE IF month = <<>> \/ year = <<>> THEN [ok |-> FALSE, value |-> NoPool]
  ELSE IF LowerCase(month) \notin validMonths /\ ~OneOrTwoDigits(month)
       THEN [ok |-> FALSE, value |-> NoPool]
  ELSE LET yearNum == ParseInt(year)
       IN IF yearNum.nan \/ yearNum.val < 2000 \/ yearNum.val > 2100
          THEN [ok |-> FALSE, value |-> NoPool]
          ELSE [ok |-> TRUE,
                value |-> [month |-> LowerCase(month), year |-> year]]

\* The message of the error validatePool throws ("" when it returns).
validatePoolMessage(year, month) ==
  IF month = <<>> /\ year = <<>> THEN ""
  ELSE IF month = <<>> THEN "Invalid pool month: must be a non-empty string"
  ELSE IF year = <<>> THEN "Invalid pool year: must be a non-empty string"
  ELSE IF LowerCase(month) \notin validMonths /\ ~OneOrTwoDigits(month)
       THEN "Invalid pool month"
  ELSE IF ~validatePool(year, month).ok
       THEN "Invalid pool year: must be between 2000-2100"
  ELSE ""

validStatuses ==
  {"active", "alumni", "staff", "blackholed", "transcender", "cadet",
   "piscine", "sinker", "freeze", "inactive", "test"}

\* validateStatus: "none" is the absent parameter; ok = FALSE: it throws.
validateStatus(status) ==
  IF status \in {"none", "all"} THEN [ok |-> TRUE, value |-> "none"]
  ELSE IF status \notin validStatuses THEN [ok |-> FALSE, value |-> "none"]
  ELSE [ok |-> TRUE, value |-> status]

\* The pool argument of the ranking: what validatePool returned.
PoolArg == validatePool(query.pool.year, query.pool.month).value

PoolOk == validatePool(query.pool.year, query.pool.month).ok

\* The characters /[^a-zA-Z0-9\s._-]/g leaves in place.
SearchAllowed(c) ==
  IsLower(c) \/ IsUpper(c) \/ IsDigit(c) \/ IsSpace(c) \/ c \in {".", "_", "-"}

\* String.prototype.trim()
RECURSIVE TrimStart(_)
TrimStart(cs) ==
  IF cs # <<>> /\ IsSpace(cs[1]) THEN TrimStart(Tail(cs)) ELSE cs

RECURSIVE TrimEnd(_)
TrimEnd(cs) ==
  IF cs # <<>> /\ IsSpace(cs[Len(cs)])
  THEN TrimEnd(SubSeq(cs, 1, Len(cs) - 1))
  ELSE cs

Trim(cs) == TrimEnd(TrimStart(cs))

validateSearch(search) ==
  LET sanitized == SelectSeq(search, SearchAllowed)
  IN SubSeq(Trim(sanitized), 1, Min(Len(Trim(sanitized)), MaxSearchLength))

\* The search argument of the ranking: what validateSearch returned.
SearchArg == validateSearch(query.search)

(***************************************************************************)
(* Filters.                                                                *)
(***************************************************************************)
\* JavaScript truthiness of a number-or-null.
Truthy(n) == n # NULL /\ n # 0

\* A status switch whose alumni case also asks for an inactive student.
StatusFilterExclusive(s, status) ==
  CASE status = "active" -> s.active
    [] status = "inactive" -> ~s.active
    [] status = "test" -> s.is_test
    [] status = "alumni" -> s.alumni /\ ~s.active
    [] status = "staff" -> s.staff
    [] status = "blackholed" -> s.blackholed
    [] status = "transcender" -> s.grade = "transcender"
    [] status = "cadet" -> s.grade = "cadet"
    [] status = "piscine" -> s.grade = "piscine" /\ s.active
    [] status = "sinker" -> s.sinker
    [] status = "freeze" -> s.freeze
    [] OTHER -> TRUE

\* The status switch of the aggregators of sortBy.js.
StatusFilter(s, status) ==
  CASE status = "active" -> s.active
    [] status = "inactive" -> ~s.active
    [] status = "test" -> s.is_test
    [] status = "alumni" -> s.alumni
    [] status = "staff" -> s.staff
    [] status = "blackholed" -> s.blackholed
    [] status = "transcender" -> s.grade = "transcender"
    [] status = "cadet" -> s.grade = "cadet"
    [] status = "piscine" -> s.grade = "piscine" /\ s.active
    [] status = "sinker" -> s.sinker
    [] status = "freeze" -> s.freeze
    [] OTHER -> TRUE

\* LOWER(s.field) LIKE '%pattern%': not true when the document has no such
\* field (LOWER of MISSING is MISSING).
LikeField(s, field, pattern) ==
  /\ field \in DOMAIN s
  /\ Contains(LowerCase(s[field]), pattern, {"_"})

\* if (search): LOWER(s.name) LIKE ... OR LOWER(s.displayName) LIKE ... OR
\* LOWER(s.login) LIKE ..., with the pattern search.toLowerCase().
SearchCondition(s, search) ==
  search # <<>> =>
    \/ LikeField(s, "name", LowerCase(search))
    \/ LikeField(s, "displayName", LowerCase(search))
    \/ Contains(LowerCase(LoginText(s.login)), LowerCase(search), {"_"})

\* if (validatedSearch): new RegExp(validatedSearch, 'i') on login,
\* displayname and email.
SearchRegex(s, search) ==
  search # <<>> =>
    \/ Contains(LowerCase(LoginText(s.login)), LowerCase(search), {"."})
    \/ Contains(LowerCase(s.displayname), LowerCase(search), {"."})
    \/ Contains(LowerCase(s.email), LowerCase(search), {"."})

\* whereConditions / studentFilters of sortBy.js; the search argument is the
\* session's.
StudentFilters(s, campusId, status, pool) ==
  /\ Truthy(campusId) => s.campusId = campusId
  /\ pool # NoPool => s.pool_month = pool.month /\ s.pool_year = pool.year
  /\ SearchCondition(s, SearchArg)
  /\ StatusFilter(s, status)

\* The status switch of GET /api/students.
MatchStatus(s, status) ==
  CASE status = "active" -> s.active
    [] status = "inactive" -> ~s.active
    [] status = "test" -> s.is_test
    [] status = "alumni" -> s.alumni
    [] status = "staff" -> s.staff
    [] status = "blackholed" -> s.blackholed
    [] status = "transcender" -> s.grade = "Transcender"
    [] status = "cadet" -> s.active /\ s.grade = "Cadet"
    [] status = "piscine" -> s.is_piscine
    [] status = "sinker" -> s.sinker
    [] status = "freeze" -> s.freeze
    [] OTHER -> TRUE

\* matchStage of GET /api/students.
MatchStage(s, campusId, status, pool) ==
  /\ campusId # NULL => s.campusId = campusId
  /\ pool # NoPool => s.pool_month = pool.month /\ s.pool_year = pool.year
  /\ SearchRegex(s, SearchArg)
  /\ MatchStatus(s, status)

StudentDocs == {students[l] : l \in Logins}

(***************************************************************************)
(* Joins and aggregates.                                                   *)
(***************************************************************************)
\* A cheat test that takes every score without points for the sentinel.
IsCheatNoPoints(p) == p.score <= 0

\* p.score = -42 (the sub-select, the join condition and the $lookup match).
IsCheat(p) == p.score = -42

CheatProjects(login) == {p \in projects : p.login = login /\ IsCheat(p)}

NoMatch == [login |-> ""]

\* LEFT JOIN: the matching documents, or one row without a match.
LeftJoin(S) == IF S = {} THEN {NoMatch} ELSE S

\* COUNT(x.login) over a group: the rows whose x is matched.
CountMatched(rows, i) == Cardinality({r \in rows : r[i] # NoMatch})

\* SUM over a group of rows: rows whose value is no number are skipped, and
\* the sum is NULL when no row has a number.
SumRows(rows, val) ==
  LET nums == {r \in rows : val[r] # NULL}
  IN IF nums = {} THEN NULL ELSE SumOver(val, nums)

\* An average as the pair sum / n; null when there is nothing to average.
NullAvg == [null |-> TRUE, sum |-> 0, n |-> 1]

Avg(fs) ==
  IF fs = {} THEN NullAvg
  ELSE [null |-> FALSE, sum |-> SumOver([f \in fs |-> f.rating], fs),
        n |-> Cardinality(fs)]

\* A page count that rounds down.
CeilRoundsDown(total, limit) == total \div limit

\* Math.ceil(total / limit)
Ceil(total, limit) == (total + limit - 1) \div limit

(***************************************************************************)
(* ORDER BY / $sort, LIMIT / OFFSET.                                       *)
(***************************************************************************)
IntKey(n) == [null |-> n = NULL, sum |-> n, n |-> 1]

\* The value ORDER BY compares.  A row of averageratesort carries the
\* sub-select's object {"$1": avg}, which collates by its only value.
SortKey(r, sort) ==
  CASE sort = "login" -> IntKey(LoginRank(r.login))
    [] sort = "avg_rating" ->
         IF "dollar1" \in DOMAIN r.avg_rating THEN r.avg_rating.dollar1
         ELSE r.avg_rating
    [] sort = "none" -> IntKey(0)
    [] OTHER -> IntKey(r[sort])

\* null collates before every number.
KeyLess(a, b) ==
  IF a.null THEN ~b.null
  ELSE ~b.null /\ a.sum * b.n < b.sum * a.n

\* Every order of the rows that the sort key and direction allow: rows with
\* equal keys come in any order.
Orderings(rows, sort, order) ==
  {sq \in [1..Cardinality(rows) -> rows] :
     /\ \A i, j \in 1..Cardinality(rows) : i # j => sq[i] # sq[j]
     /\ \A i, j \in 1..Cardinality(rows) :
          i < j => IF order = "asc"
                   THEN ~KeyLess(SortKey(sq[j], sort), SortKey(sq[i], sort))
                   ELSE ~KeyLess(SortKey(sq[i], sort), SortKey(sq[j], sort))}

\* LIMIT limit OFFSET skip.
Page(sq, skip, limit) == SubSeq(sq, skip + 1, Min(skip + limit, Len(sq)))


(***************************************************************************)
(* The queries of src/controllers/sortBy.js.  Each yields the rows of the  *)
(* ranked query before ORDER BY / LIMIT / OFFSET and the total of the      *)
(* count query.                                                            *)
(***************************************************************************)
Filtered(campusId, status, pool) ==
  {s \in StudentDocs : StudentFilters(s, campusId, status, pool)}

\* A test that any project record satisfies.
HasProjects(login) == {p \in projects : p.login = login} # {}

HasCheats(login) == CheatProjects(login) # {}

loginbasesortQuery(campusId, status, pool) ==
  [rows |-> {[has_cheats |-> HasCheats(s.login)] @@ s :
               s \in Filtered(campusId, status, pool)},
   total |-> Cardinality(Filtered(campusId, status, pool))]

\* FROM projects p INNER JOIN students s WHERE p.score = -42 GROUP BY s.
projectcheatsortQuery(campusId, status, pool) ==
  LET joined == {p \in projects :
                   /\ IsCheat(p)
                   /\ p.login \in Logins
                   /\ StudentFilters(students[p.login], campusId, status, pool)}
  IN [rows |-> {[cheat_count |-> Cardinality({p \in joined : p.login = g}),
                 has_cheats |-> TRUE] @@ students[g] :
                  g \in {p.login : p \in joined}},
      total |-> Cardinality({p.login : p \in joined})]

\* The sub-select counts the records with p.status = 'success'.
SuccessCount(login) ==
  Cardinality({p \in projects : p.login = login /\ p.status = "success"})

projectcountsortQuery(campusId, status, pool) ==
  [rows |-> {[project_count |-> SuccessCount(s.login),
              has_cheats |-> HasCheats(s.login)] @@ s :
               s \in Filtered(campusId, status, pool)},
   total |-> Cardinality(Filtered(campusId, status, pool))]

\* The latest (order desc) or earliest (order asc) score -42 record, by the
\* record's position in the student's history.
LatestCheat(login, order) ==
  CHOOSE p \in CheatProjects(login) :
    \A o \in CheatProjects(login) :
      IF order = "asc" THEN p.project <= o.project ELSE p.project >= o.project

projectnewcheatsortQuery(campusId, status, pool, order) ==
  LET found == {s \in Filtered(campusId, status, pool) : HasCheats(s.login)}
  IN [rows |-> {[latest_cheat_project |-> LatestCheat(s.login, order),
                 has_cheats |-> TRUE] @@ s : s \in found},
      total |-> Cardinality(found)]

\* FROM patronages p UNNEST p.children c INNER JOIN students s ON s.login =
\* c.login LEFT JOIN patronages p2 (s among p2.godfathers) LEFT JOIN projects
\* cheat, GROUP BY s.  A joined row is <<p, s.login, p2, cheat>>.
familyJoin(campusId, status, pool) ==
  UNION {{<<p, c, p2, cheat>> :
            p2 \in LeftJoin({x \in patronages : c \in x.godfathers}),
            cheat \in LeftJoin(CheatProjects(c))} :
         <<p, c>> \in {pc \in patronages \X Logins :
                       /\ pc[2] \in pc[1].children
                       /\ StudentFilters(students[pc[2]], campusId, status, pool)}}

familybasesortQuery(campusId, status, pool) ==
  LET joined == familyJoin(campusId, status, pool)
      group(g) == {r \in joined : r[2] = g}
  IN [rows |-> {[godfather_count |-> Cardinality({r[1].login : r \in group(g)}),
                 children_count |->
                   Cardinality({r[3].login : r \in {x \in group(g) : x[3] # NoMatch}}),
                 has_cheats |-> CountMatched(group(g), 4) > 0] @@ students[g] :
                  g \in {r[2] : r \in joined}},
      \* the count query: the same joins without the two LEFT JOINs
      total |-> Cardinality({pc[2] : pc \in {x \in patronages \X Logins :
                   /\ x[2] \in x[1].children
                   /\ StudentFilters(students[x[2]], campusId, status, pool)}})]

\* l.campusId = campusId AND l.type = 'LocationStats' AND studentWhere, with
\* the INNER JOIN of the student.
logtimeLocations(campusId, status, pool) ==
  {l \in locationstats :
     /\ Truthy(campusId) => l.campusId = campusId
     /\ l.login \in Logins
     /\ StudentFilters(students[l.login], campusId, status, pool)}

\* FROM locationstats l UNNEST OBJECT_NAMES(l.months) mn INNER JOIN students s
\* LEFT JOIN projects cheat, GROUP BY s.  A joined row is <<l, mn, cheat>>.
logtimeJoin(campusId, status, pool) ==
  UNION {{<<l, mn, cheat>> :
            mn \in DOMAIN l.months,
            cheat \in LeftJoin(CheatProjects(l.login))} :
         l \in logtimeLocations(campusId, status, pool)}

logtimesortQuery(campusId, status, pool) ==
  LET joined == logtimeJoin(campusId, status, pool)
      group(g) == {r \in joined : r[1].login = g}
      seconds(g) ==
        [r \in group(g) |-> DurationSeconds(r[1].months[r[2]].totalDuration)]
  IN [rows |-> {[log_time |-> SumRows(group(g), seconds(g)),
                 has_cheats |-> CountMatched(group(g), 3) > 0] @@ students[g] :
                  g \in {r[1].login : r \in joined}},
      \* the count query has no UNNEST
      total |-> Cardinality({l.login : l \in logtimeLocations(campusId, status, pool)})]

\* f.campusId = campusId AND f.login = s.login
FeedbacksFor(login, campusId) ==
  {f \in feedbacks : (Truthy(campusId) => f.campusId = campusId) /\ f.login = login}

feedbackcountsortQuery(campusId, status, pool) ==
  [rows |-> {[feedback_count |-> Cardinality(FeedbacksFor(s.login, campusId)),
              has_cheats |-> HasCheats(s.login)] @@ s :
               s \in Filtered(campusId, status, pool)},
   total |-> Cardinality(Filtered(campusId, status, pool))]

\* (SELECT AVG(f.rating) ... f.rating IS NOT NULL)[0]: the first row of a
\* sub-select without VALUE is the object {"$1": avg}.
averageratesortQuery(campusId, status, pool) ==
  [rows |-> {[avg_rating |->
                [dollar1 |-> Avg({f \in FeedbacksFor(s.login, campusId) :
                                    f.rating # NULL})],
              has_cheats |-> HasCheats(s.login)] @@ s :
               s \in Filtered(campusId, status, pool)},
   total |-> Cardinality(Filtered(campusId, status, pool))]


(***************************************************************************)
(* The aggregation pipelines of GET /api/students (src/routes/students.js).*)
(***************************************************************************)
Matched(campusId, status, pool) ==
  {s \in StudentDocs : MatchStage(s, campusId, status, pool)}

\* $lookup from patronages on login, then $arrayElemAt 0 of the field, with
\* $ifNull [] when there is no document.
PatronageSize(login, field) ==
  LET docs == {p \in patronages : p.login = login}
  IN IF docs = {} THEN 0 ELSE Cardinality((CHOOSE p \in docs : TRUE)[field])

\* $toInt fails on a text that is no integer; an absent array element is null.
ToIntFails(d) ==
  \E i \in 1..Min(3, Len(Split(d, ":"))) : TONUMBER(Split(d, ":")[i]) = NULL

\* The months of the first LocationStats document of the login ({} without).
MonthsOf(login) ==
  LET docs == {l \in locationstats : l.login = login}
  IN IF docs = {} THEN <<>> ELSE (CHOOSE l \in docs : TRUE).months

DayDurations(login) ==
  UNION {{<<mn, d>> : d \in DOMAIN MonthsOf(login)[mn].days} :
         mn \in DOMAIN MonthsOf(login)}

\* The two nested $reduce stages: hours * 3600 + minutes * 60 + seconds
\* summed over every day of every month.
RECURSIVE PlusOver(_, _)
PlusOver(f, D) ==
  IF D = {} THEN 0
  ELSE LET x == CHOOSE y \in D : TRUE IN Plus(f[x], PlusOver(f, D \ {x}))

LogTime(login) ==
  PlusOver([md \in DayDurations(login) |->
              DurationSeconds(MonthsOf(login)[md[1]].days[md[2]])],
           DayDurations(login))

\* The pipeline fails as a whole when $toInt fails on one matched student.
PipelineFails(sort, campusId, status, pool) ==
  /\ sort = "log_time"
  /\ \E s \in Matched(campusId, status, pool) :
       \E md \in DayDurations(s.login) :
         ToIntFails(MonthsOf(s.login)[md[1]].days[md[2]])

\* The fields $addFields gives a matched student, by sort field.
Derived(s, sort) ==
  CASE sort = "project_count" ->
         [project_count |-> Cardinality({p \in projects : p.login = s.login}),
          has_cheats |-> HasCheats(s.login)]
    [] sort = "cheat_count" ->
         [cheat_count |-> Cardinality(CheatProjects(s.login)), has_cheats |-> TRUE]
    [] sort \in {"godfather_count", "children_count"} ->
         [godfather_count |-> PatronageSize(s.login, "godfathers"),
          children_count |-> PatronageSize(s.login, "children"),
          has_cheats |-> HasCheats(s.login)]
    [] sort = "log_time" ->
         [log_time |-> LogTime(s.login), has_cheats |-> HasCheats(s.login)]
    [] sort = "feedback_count" ->
         [feedback_count |-> Cardinality({f \in feedbacks : f.evaluated = s.login}),
          has_cheats |-> HasCheats(s.login)]
    [] sort = "avg_rating" ->
         [avg_rating |-> Avg({f \in feedbacks :
                                f.evaluated = s.login /\ f.rating # NULL}),
          has_cheats |-> HasCheats(s.login)]
    [] OTHER -> [has_cheats |-> HasCheats(s.login)]

\* pipeline and countPipeline of the sort switch.
studentsPipeline(sort, campusId, status, pool) ==
  LET population ==
        IF sort = "cheat_count"
        THEN {s \in Matched(campusId, status, pool) : CheatProjects(s.login) # {}}
        ELSE Matched(campusId, status, pool)
  IN [rows |-> {Derived(s, sort) @@ s : s \in population},
      total |-> Cardinality(population)]

(***************************************************************************)
(* The session: calls of one ranking function with the session's query.    *)
(***************************************************************************)
InSession(fn, sort) ==
  call.fn = "none" \/ (call.fn = fn /\ call.sort = sort)

RowLogins(rows) == [i \in 1..Len(rows) |-> rows[i].login]

\* The pages fetched so far, when they were fetched in the order 1, 2, ...
NextAcc(page, rows) ==
  IF page = 1 THEN [pages |-> 1, logins |-> RowLogins(rows)]
  ELSE IF acc.pages >= 1 /\ page = acc.pages + 1
       THEN [pages |-> page, logins |-> acc.logins \o RowLogins(rows)]
       ELSE NoAcc

\* Both queries were issued by one Promise.all and have completed; the list
\* handler then calls logEvent once.
IoDone(fn) ==
  [ranked |-> "done", count |-> "done", issued |-> 2,
   events |-> IF fn = "studentsList" THEN 1 ELSE 0, error |-> ""]

\* The result object built from the rows of the ranked query and the total
\* of the count query.
Result(fn, sort, page, limit, q, sortfield) ==
  /\ call' = [fn |-> fn, sort |-> sort, page |-> page]
  /\ \E sq \in Orderings(q.rows, sortfield, query.order) :
       LET skip == (page - 1) * limit
           rows == Page(sq, skip, limit)
       IN /\ resp' = [NoResp EXCEPT
                        !.status = 200, !.students = rows,
                        !.pagination = [total |-> q.total, page |-> page,
                                        limit |-> limit,
                                        totalPages |-> Ceil(q.total, limit)]]
          /\ acc' = NextAcc(page, rows)
  /\ UNCHANGED <<app, students, projects, locationstats, feedbacks, patronages, query>>

\* Promise.all of the ranked query and the count query, then the result.
Respond(fn, sort, page, limit, q, sortfield) ==
  /\ Result(fn, sort, page, limit, q, sortfield)
  /\ io' = IoDone(fn)

\* res.status(status).json({ error, message }) of the list handler.
Fail(fn, sort, page, status, error, message, newio) ==
  /\ call' = [fn |-> fn, sort |-> sort, page |-> page]
  /\ resp' = [NoResp EXCEPT !.status = status,
                            !.body = [error |-> error, message |-> message]]
  /\ acc' = NoAcc
  /\ io' = newio
  /\ UNCHANGED <<app, students, projects, locationstats, feedbacks, patronages, query>>

\* A validation that leaves the status parameter unchecked.
ValidationErrorNoStatus ==
  IF ~validateCampusId(query.campusId).ok
  THEN "Invalid campusId: must be a positive integer"
  ELSE IF ~validatePool(query.pool.year, query.pool.month).ok
  THEN validatePoolMessage(query.pool.year, query.pool.month)
  ELSE ""

\* The message of the first validator of the list handler that throws ("" when
\* none does): validateCampusId, validatePool, validateStatus in this order
\* (validateSearch, validateSort, validateOrder and validateLimit never throw).
ValidationError ==
  IF ~validateCampusId(query.campusId).ok
  THEN "Invalid campusId: must be a positive integer"
  ELSE IF ~validatePool(query.pool.year, query.pool.month).ok
  THEN validatePoolMessage(query.pool.year, query.pool.month)
  ELSE IF ~validateStatus(query.status).ok THEN "Invalid status filter"
  ELSE ""

\* The ranked aggregation of the list handler is rejected by the store: a
\* negative $skip, or $toInt on a text that is no integer.
AggregateError(sort, skip) ==
  IF skip < 0 THEN "$skip must be non-negative"
  ELSE IF PipelineFails(sort, validateCampusId(query.campusId).value,
                        query.status,
                        validatePool(query.pool.year, query.pool.month).value)
  THEN "Failed to parse number in $convert"
  ELSE ""

\* The ranked query has failed while the count query was still running or
\* already done.
IoRankedFailed(error) ==
  {[ranked |-> "failed", count |-> c, issued |-> 2, events |-> 0,
    error |-> error] : c \in {"pending", "done"}}

\* The campus argument of the aggregators: what validateCampusId returned.
CampusArg == validateCampusId(query.campusId).value

CampusOk == validateCampusId(query.campusId).ok

\* The limit argument of the aggregators: a number.
LimitOk == query.limit \in Limits

LimitParam == DigitsVal(query.limit)

\* The raw page texts of a request to the list handler: the pages 1, 2, ...
\* and, in a session that varies the limit text, also no page, page 0, a
\* negative page, a text that is no number and a page far beyond the data.
PageTexts ==
  {NumText(n) : n \in 1..MaxPage} \cup
    IF query.limit \in Limits THEN {}
    ELSE {<<>>, <<"0">>, <<"-", "1">>, <<"a", "b", "c">>,
          <<"1", "0", "0", "0", "0", "2">>}

loginbasesort ==
  \E sorttype \in {"login", "level", "wallet", "correction_point"},
     page \in 1..MaxPage :
    /\ CampusOk /\ PoolOk /\ LimitOk /\ InSession("loginbasesort", sorttype)
    /\ Respond("loginbasesort", sorttype, page, LimitParam,
               loginbasesortQuery(CampusArg, query.status, PoolArg), sorttype)

projectcheatsort ==
  \E page \in 1..MaxPage :
    /\ CampusOk /\ PoolOk /\ LimitOk /\ InSession("projectcheatsort", "cheat_count")
    /\ Respond("projectcheatsort", "cheat_count", page, LimitParam,
               projectcheatsortQuery(CampusArg, query.status, PoolArg),
               "cheat_count")

projectcountsort ==
  \E page \in 1..MaxPage :
    /\ CampusOk /\ PoolOk /\ LimitOk /\ InSession("projectcountsort", "project_count")
    /\ Respond("projectcountsort", "project_count", page, LimitParam,
               projectcountsortQuery(CampusArg, query.status, PoolArg),
               "project_count")

\* No ORDER BY: the store returns the rows in any order.
projectnewcheatsort ==
  \E page \in 1..MaxPage :
    /\ CampusOk /\ PoolOk /\ LimitOk /\ InSession("projectnewcheatsort", "none")
    /\ Respond("projectnewcheatsort", "none", page, LimitParam,
               projectnewcheatsortQuery(CampusArg, query.status, PoolArg,
                                        query.order),
               "none")

familybasesort ==
  \E sorttype \in {"godfather_count", "children_count"}, page \in 1..MaxPage :
    /\ CampusOk /\ PoolOk /\ LimitOk /\ InSession("familybasesort", sorttype)
    /\ Respond("familybasesort", sorttype, page, LimitParam,
               familybasesortQuery(CampusArg, query.status, PoolArg), sorttype)

logtimesort ==
  \E page \in 1..MaxPage :
    /\ CampusOk /\ PoolOk /\ LimitOk /\ InSession("logtimesort", "log_time")
    /\ Respond("logtimesort", "log_time", page, LimitParam,
               logtimesortQuery(CampusArg, query.status, PoolArg), "log_time")

feedbackcountsort ==
  \E page \in 1..MaxPage :
    /\ CampusOk /\ PoolOk /\ LimitOk /\ InSession("feedbackcountsort", "feedback_count")
    /\ Respond("feedbackcountsort", "feedback_count", page, LimitParam,
               feedbackcountsortQuery(CampusArg, query.status, PoolArg),
               "feedback_count")

averageratesort ==
  \E page \in 1..MaxPage :
    /\ CampusOk /\ PoolOk /\ LimitOk /\ InSession("averageratesort", "avg_rating")
    /\ Respond("averageratesort", "avg_rating", page, LimitParam,
               averageratesortQuery(CampusArg, query.status, PoolArg),
               "avg_rating")

\* router.get("/"): validation, the sort switch, the two aggregations and
\* the response.  sortBy is the raw parameter.
\* A negative $skip makes the aggregation fail (catch: 500).
studentsList ==
  \E sortBy \in allowedFields \cup {"rank"},
     pageText \in PageTexts :
    LET validatedSort == validateSort(sortBy)
        page == validatePage(pageText)
        validatedLimit == Min(validateLimit(query.limit), 50)
        skip == (page - 1) * validatedLimit
    IN /\ InSession("studentsList", sortBy)
       /\ IF ValidationError # ""
          THEN Fail("studentsList", sortBy, page, 400, "Bad Request",
                    ValidationError, NoIo)
          ELSE IF validatedSort \notin HandlerSortFields
          THEN Fail("studentsList", sortBy, page, 400, "Bad Request",
                    "Invalid sort field", NoIo)
          ELSE IF AggregateError(validatedSort, skip) # ""
          THEN \E newio \in IoRankedFailed(AggregateError(validatedSort, skip)) :
                 Fail("studentsList", sortBy, page, 500,
                      "Failed to fetch students",
                      AggregateError(validatedSort, skip), newio)
          ELSE Respond("studentsList", sortBy, page, validatedLimit,
                       studentsPipeline(validatedSort, CampusArg, query.status,
                                        PoolArg),
                       validatedSort)

Next ==
  \/ loginbasesort
  \/ projectcheatsort
  \/ projectcountsort
  \/ projectnewcheatsort
  \/ familybasesort
  \/ logtimesort
  \/ feedbackcountsort
  \/ averageratesort
  \/ studentsList

Spec == Init /\ [][Next]_vars


(***************************************************************************)
(* The same invocations step by step: the two queries of Promise.all are   *)
(* in flight together, each completes or fails on its own, and the         *)
(* invocation settles when Promise.all does.                               *)
(***************************************************************************)
InitReads == InitPatronages \/ InitPaging \/ InitMalformed

Aggregators ==
  {"loginbasesort", "projectcheatsort", "projectcountsort",
   "projectnewcheatsort", "familybasesort", "logtimesort",
   "feedbackcountsort", "averageratesort"}

\* The sorttype arguments of an aggregator, the raw sortBy values of the list
\* handler.
SortsOf(fn) ==
  CASE fn = "loginbasesort" -> {"login", "level", "wallet", "correction_point"}
    [] fn = "projectcheatsort" -> {"cheat_count"}
    [] fn = "projectcountsort" -> {"project_count"}
    [] fn = "projectnewcheatsort" -> {"none"}
    [] fn = "familybasesort" -> {"godfather_count", "children_count"}
    [] fn = "logtimesort" -> {"log_time"}
    [] fn = "feedbackcountsort" -> {"feedback_count"}
    [] fn = "averageratesort" -> {"avg_rating"}
    [] OTHER -> HandlerSortFields \cup {"evo_performance", "rank"}

\* The field the ranked query of the invocation sorts by.
SortFieldOf(fn, sort) == IF fn = "studentsList" THEN validateSort(sort) ELSE sort

\* The page size of the invocation.
LimitOf(fn) ==
  IF fn = "studentsList" THEN Min(validateLimit(query.limit), 50) ELSE LimitParam

\* The ranked query and the count query of the invocation.
QueryOf(fn, sort) ==
  CASE fn = "loginbasesort" -> loginbasesortQuery(CampusArg, query.status, PoolArg)
    [] fn = "projectcheatsort" ->
         projectcheatsortQuery(CampusArg, query.status, PoolArg)
    [] fn = "projectcountsort" ->
         projectcountsortQuery(CampusArg, query.status, PoolArg)
    [] fn = "projectnewcheatsort" ->
         projectnewcheatsortQuery(CampusArg, query.status, PoolArg, query.order)
    [] fn = "familybasesort" ->
         familybasesortQuery(CampusArg, query.status, PoolArg)
    [] fn = "logtimesort" -> logtimesortQuery(CampusArg, query.status, PoolArg)
    [] fn = "feedbackcountsort" ->
         feedbackcountsortQuery(CampusArg, query.status, PoolArg)
    [] fn = "averageratesort" ->
         averageratesortQuery(CampusArg, query.status, PoolArg)
    [] OTHER -> studentsPipeline(validateSort(sort), CampusArg, query.status,
                                 PoolArg)

\* The invocation has not settled: await Promise.all(...) has not returned.
Awaiting == call.fn # "none" /\ resp.status = 0 /\ resp.thrown = ""

\* No invocation is running and no query of an earlier one is in flight.
Idle == ~Awaiting /\ io.ranked # "pending" /\ io.count # "pending"

\* The list handler refuses the request before the sort switch builds a
\* pipeline: a validator throws, or the switch takes its default branch.
refuse ==
  \E sortBy \in SortsOf("studentsList"), pageText \in PageTexts :
    /\ Idle /\ InSession("studentsList", sortBy)
    /\ ValidationError # "" \/ validateSort(sortBy) \notin HandlerSortFields
    /\ Fail("studentsList", sortBy, validatePage(pageText), 400, "Bad Request",
            IF ValidationError # "" THEN ValidationError
            ELSE "Invalid sort field", NoIo)

\* Promise.all([query(ranked), query(count)]): both queries are issued in the
\* same step, before the await.
invoke ==
  \E fn \in Aggregators \cup {"studentsList"} :
    \E sort \in SortsOf(fn), pageText \in PageTexts :
      /\ Idle /\ InSession(fn, sort)
      /\ IF fn = "studentsList"
         THEN ValidationError = "" /\ validateSort(sort) \in HandlerSortFields
         ELSE /\ CampusOk /\ PoolOk /\ LimitOk
              /\ pageText \in {NumText(n) : n \in 1..MaxPage}
      /\ call' = [fn |-> fn, sort |-> sort, page |-> validatePage(pageText)]
      /\ resp' = NoResp
      /\ io' = [ranked |-> "pending", count |-> "pending", issued |-> 2,
                events |-> 0, error |-> ""]
      /\ UNCHANGED <<app, students, projects, locationstats, feedbacks, patronages,
                     query, acc>>

\* The error the store rejects the ranked query with, whenever it runs it.
RankedError ==
  IF call.fn = "studentsList"
  THEN AggregateError(validateSort(call.sort), (call.page - 1) * LimitOf(call.fn))
  ELSE ""

Settle(which, state, error) ==
  /\ io[which] = "pending"
  /\ io' = [io EXCEPT ![which] = state,
                      !.error = IF io.error = "" THEN error ELSE io.error]
  /\ UNCHANGED <<app, students, projects, locationstats, feedbacks, patronages,
                 query, call, resp, acc>>

rankedCompletes == RankedError = "" /\ Settle("ranked", "done", "")

\* The store rejects the query, or the connection to the store fails.
rankedFails ==
  Settle("ranked", "failed",
         IF RankedError # "" THEN RankedError ELSE "ranked query failed")

countCompletes == Settle("count", "done", "")

countFails == Settle("count", "failed", "count query failed")

\* Promise.all is fulfilled when one of its promises is.
AnyFulfilled == io.ranked = "done" \/ io.count = "done"

\* Promise.all is fulfilled when all of its promises are.
AllFulfilled == io.ranked = "done" /\ io.count = "done"

\* Promise.all is rejected as soon as one of its promises is, with that
\* promise's error.
Rejected == io.ranked = "failed" \/ io.count = "failed"

\* The code after the await: the result object, and in the list handler the
\* logEvent call and res.json.
resolve ==
  /\ Awaiting /\ AllFulfilled /\ ~Rejected
  /\ Result(call.fn, call.sort, call.page, LimitOf(call.fn),
            QueryOf(call.fn, call.sort), SortFieldOf(call.fn, call.sort))
  /\ io' = [io EXCEPT !.events = IoDone(call.fn).events]

\* The await throws: an aggregator's promise is rejected with the error, the
\* list handler's catch answers 500 with the error's message.
reject ==
  /\ Awaiting /\ Rejected
  /\ resp' = IF call.fn = "studentsList"
             THEN [NoResp EXCEPT !.status = 500,
                                 !.body = [error |-> "Failed to fetch students",
                                           message |-> io.error]]
             ELSE [NoResp EXCEPT !.thrown = io.error]
  /\ acc' = NoAcc
  /\ UNCHANGED <<app, students, projects, locationstats, feedbacks, patronages,
                 query, call, io>>

NextReads ==
  \/ refuse
  \/ invoke
  \/ rankedCompletes
  \/ rankedFails
  \/ countCompletes
  \/ countFails
  \/ resolve
  \/ reject

SpecReads == InitReads /\ [][NextReads]_vars


(***************************************************************************)
(* The HTTP application: the middleware chain of index.js (the revisions   *)
(* src/unnamed/part_005 and part_006), the authenticate middleware (the    *)
(* 42 Intra revision src/middleware/auth.js and the session revision       *)
(* src/unnamed/part_008) and the responses of the route handlers.          *)
(***************************************************************************)
Tokens == {"tok1", "tok2", "tok3"}

\* Times are small integers; a request arrives at time 1 or 2.
Clock == {1, 2}

\* The Session documents: tok1 is a session of alice, tok2 one of bob, each
\* expiring early or late; tok3 is no session.
SessionSets ==
  {{[sessionToken |-> "tok1", login |-> "alice", userData |-> "alice-data",
     expiresAt |-> e1, lastActivity |-> 0],
    [sessionToken |-> "tok2", login |-> "bob", userData |-> "bob-data",
     expiresAt |-> e2, lastActivity |-> 0]} : e1 \in {1, 3}, e2 \in {3}}

\* The BannedUser documents: a permanent ban and a ban that expires.
PermanentBan == [login |-> "alice", expiresAt |-> NULL, reason |-> "spam"]

BanUntil(login, time) == [login |-> login, expiresAt |-> time, reason |-> ""]

BanSets ==
  {{}, {PermanentBan}, {BanUntil("alice", 2)}, {BanUntil("bob", 3)},
   {PermanentBan, BanUntil("alice", 2)}}

\* The build: one revision of index.js with one revision of authenticate.
\* valid holds the tokens https://api.intra.42.fr/v2/me accepts.
Servers ==
  {[revision |-> r, auth |-> "intra", valid |-> {"tok1"}, sessions |-> {},
    bans |-> {}] : r \in {"part_005", "part_006"}}
  \cup
  {[revision |-> r, auth |-> "session", valid |-> {}, sessions |-> s,
    bans |-> b] : r \in {"part_005", "part_006"}, s \in SessionSets,
                  b \in BanSets}

Paths ==
  {"/health", "/", "/api/students", "/api/students/pools",
   "/api/students/alice", "/api/dashboard", "/api/user/me", "/api/reviews",
   "/api/reviews/projectNames", "/api/reviews/statuses", "/api/unknown"}

\* The Authorization header: absent, another scheme, a lower-case scheme, a
\* Bearer token.
Authorizations ==
  {[scheme |-> "", token |-> ""], [scheme |-> "Basic", token |-> "tok1"],
   [scheme |-> "bearer", token |-> "tok1"]}
  \cup {[scheme |-> "Bearer", token |-> t] : t \in Tokens}

Request(method, path, authorization, body) ==
  [method |-> method, path |-> path, scheme |-> authorization.scheme,
   token |-> authorization.token, body |-> body]

\* GET requests of every path, preflights of every path, and POST requests
\* whose JSON body parses or does not (body "malformed").
Requests ==
  {Request("GET", p, a, "") : p \in Paths, a \in Authorizations}
  \cup
  {Request("OPTIONS", p, a, "") :
     p \in Paths, a \in {[scheme |-> "", token |-> ""],
                         [scheme |-> "Bearer", token |-> "tok3"]}}
  \cup
  {Request("POST", p, a, b) :
     p \in {"/health", "/api/students", "/api/reviews/statuses"},
     a \in Authorizations, b \in {"", "malformed"}}

InitApp ==
  /\ students = [l \in Logins |-> DefaultStudent(l)]
  /\ projects = DefaultProjects
  /\ locationstats = DefaultLocations
  /\ feedbacks = DefaultFeedbacks
  /\ patronages = DefaultPatronages
  /\ query \in {q \in PlainQueries : q.order = "asc" /\ q.limit = NumText(MaxLimit)}
  /\ call = NoCall /\ resp = NoResp /\ acc = NoAcc /\ io = NoIo
  /\ server \in Servers
  /\ http = NoHttp
  /\ codec = NoCodec

\* app.use('/api', ...): the path is below the mount point.
UnderApi(path) == path \notin {"/health", "/"}

\* req.path === '/reviews/projectNames' || req.path === '/reviews/statuses'
\* (part_006 only).
PublicPath(path) ==
  /\ server.revision = "part_006"
  /\ path \in {"/api/reviews/projectNames", "/api/reviews/statuses"}

\* The route handler a request is dispatched to ("none": no route matches).
\* Every route is a router.get; the reviews router is mounted by part_006.
RouteOf(req) ==
  IF req.method # "GET" THEN "none"
  ELSE CASE req.path = "/api/students" -> "students.list"
         [] req.path = "/api/students/pools" -> "students.pools"
         [] req.path = "/api/students/alice" -> "students.login"
         [] req.path = "/api/dashboard" -> "dashboard"
         [] req.path = "/api/user/me" -> "user.me"
         [] req.path = "/api/reviews" /\ server.revision = "part_006" -> "reviews.list"
         [] req.path = "/api/reviews/projectNames" /\ server.revision = "part_006" ->
              "reviews.projectNames"
         [] req.path = "/api/reviews/statuses" /\ server.revision = "part_006" ->
              "reviews.statuses"
         [] OTHER -> "none"

Ok200 == [status |-> 200, body |-> <<>>]

Err(status, error, message) ==
  [status |-> status, body |-> [error |-> error, message |-> message]]

Unavailable == Err(503, "Service Unavailable", "Database models not initialized")

BadRequest == Err(400, "Bad Request", "validationError.message")

\* The responses a route handler sends.
Responses(handler) ==
  CASE handler = "students.list" ->
         {Ok200, BadRequest, Err(400, "Bad Request", "Invalid sort field"),
          Err(500, "Failed to fetch students", "error.message")}
    [] handler = "students.pools" ->
         {Ok200, Unavailable, BadRequest,
          Err(500, "Failed to fetch pools data", "error.message")}
    [] handler = "students.login" ->
         {Ok200, Unavailable, BadRequest,
          [status |-> 404, body |-> [error |-> "Student not found"]],
          Err(500, "Failed to fetch student", "error.message")}
    [] handler = "dashboard" ->
         {Ok200, Unavailable, BadRequest,
          Err(500, "Failed to fetch dashboard data", "error.message")}
    [] handler = "user.me" ->
         {Ok200, Err(500, "Failed to fetch user data", "error.message")}
    [] handler = "reviews.list" ->
         {Ok200, BadRequest, Err(500, "Failed to fetch reviews", "error.message")}
    [] handler = "reviews.projectNames" ->
         {Ok200, Err(500, "Failed to fetch project names", "error.message")}
    [] OTHER -> {Ok200, Err(500, "Failed to fetch statuses", "error.message")}

Unchanged == UNCHANGED <<students, projects, locationstats, feedbacks,
                         patronages, query, call, resp, acc, io, codec>>

\* res.status(...).json(...) / res.end(): the request is answered.
Send(by, r) ==
  http' = [http EXCEPT !.pc = "done", !.by = by, !.status = r.status,
                       !.body = r.body]

\* A request arrives.
receive ==
  /\ http.pc \in {"idle", "done"}
  /\ \E req \in Requests, now \in Clock :
       http' = [NoHttp EXCEPT !.pc = "top", !.req = req, !.now = now]
  /\ UNCHANGED server /\ Unchanged

\* cors(): an OPTIONS request is answered as a preflight (app.options('*') and
\* the OPTIONS branch of the /api gate would answer it the same way, without
\* authentication).
preflight ==
  /\ http.pc = "top" /\ http.req.method = "OPTIONS"
  /\ Send("cors", [status |-> 204, body |-> <<>>])
  /\ UNCHANGED server /\ Unchanged

\* express.json() fails on the body and calls next(err): the error handler.
bodyError ==
  /\ http.pc = "top" /\ http.req.method # "OPTIONS"
  /\ http.req.body = "malformed"
  /\ Send("errorHandler", Err(500, "Internal server error", "err.message"))
  /\ UNCHANGED server /\ Unchanged

Parsed == http.pc = "top" /\ http.req.method # "OPTIONS" /\ http.req.body = ""

\* app.get('/health')
health ==
  /\ Parsed /\ http.req.method = "GET" /\ http.req.path = "/health"
  /\ Send("health", Ok200)
  /\ UNCHANGED server /\ Unchanged

\* app.use('/api', ...): public paths go on, every other is authenticated.
apiGate ==
  /\ Parsed /\ UnderApi(http.req.path)
  /\ http' = [http EXCEPT !.pc = IF PublicPath(http.req.path) THEN "route"
                                  ELSE "auth"]
  /\ UNCHANGED server /\ Unchanged

\* authenticate sends one error response.
Deny(r, fault) ==
  http' = [http EXCEPT !.pc = "done", !.by = "authenticate",
                       !.status = r.status, !.body = r.body,
                       !.sent = @ + 1, !.fault = fault]

\* authenticate sets req.user and calls next().
Accept(user) ==
  http' = [http EXCEPT !.pc = "route", !.user = user, !.accepted = TRUE,
                       !.nexts = @ + 1]

NoBearer == Err(401, "Unauthorized", "No Bearer token provided")

ServiceDown == Err(500, "Internal Server Error", "Authentication service unavailable")

\* src/middleware/auth.js: the token is verified by a GET to the 42 API,
\* which answers, answers with an error, or cannot be reached.
authenticateIntra ==
  /\ http.pc = "auth" /\ server.auth = "intra"
  /\ IF http.req.scheme # "Bearer" THEN Deny(NoBearer, "")
     ELSE \/ /\ http.req.token \in server.valid
             /\ Accept(http.req.token)
          \/ /\ http.req.token \notin server.valid
             /\ Deny(Err(401, "Unauthorized", "Invalid or expired token"), "")
          \/ Deny(ServiceDown, "axios.get")
  /\ UNCHANGED server /\ Unchanged

\* A ban test that overlooks the permanent bans.
ActiveBansNoPermanent(login, now) ==
  {b \in server.bans : b.login = login /\ b.expiresAt # NULL /\ b.expiresAt > now}

\* BannedUser.findOne({ login, $or: [{ expiresAt: null },
\*                                   { expiresAt: { $gt: new Date() } }] })
ActiveBans(login, now) ==
  {b \in server.bans :
     b.login = login /\ (b.expiresAt = NULL \/ b.expiresAt > now)}

\* Session.findOne({ sessionToken, expiresAt: { $gt: new Date() } })
LiveSessions(token, now) ==
  {s \in server.sessions : s.sessionToken = token /\ s.expiresAt > now}

\* src/unnamed/part_008: the session lookup, the ban lookup (at a later
\* reading of the clock) and the update of the session; each store operation
\* may fail, which the catch answers with 500.
authenticateSession ==
  /\ http.pc = "auth" /\ server.auth = "session"
  /\ IF http.req.scheme # "Bearer"
     THEN Deny(NoBearer, "") /\ UNCHANGED server
     ELSE \/ Deny(ServiceDown, "Session.findOne") /\ UNCHANGED server
          \/ /\ LiveSessions(http.req.token, http.now) = {}
             /\ Deny(Err(401, "Unauthorized", "Invalid or expired session"), "")
             /\ UNCHANGED server
          \/ \E session \in LiveSessions(http.req.token, http.now),
                now2 \in {http.now, http.now + 1} :
               \/ Deny(ServiceDown, "BannedUser.findOne") /\ UNCHANGED server
               \/ /\ ActiveBans(session.login, now2) # {}
                  /\ \E b \in ActiveBans(session.login, now2) :
                       Deny(Err(403, "Forbidden",
                                IF b.reason = "" THEN "User is banned"
                                ELSE "User is banned: reason"), "")
                  /\ UNCHANGED server
               \/ /\ ActiveBans(session.login, now2) = {}
                  /\ \/ Deny(ServiceDown, "Session.updateOne") /\ UNCHANGED server
                     \/ /\ Accept(session.userData)
                        /\ server' =
                             [server EXCEPT !.sessions =
                                (@ \ {session}) \cup
                                  {[session EXCEPT !.lastActivity = now2]}]
  /\ Unchanged

\* The routers: the matching route handler runs and answers; without a
\* matching route the request falls through to the 404 handler.
route ==
  /\ http.pc = "route"
  /\ IF RouteOf(http.req) = "none" THEN http' = [http EXCEPT !.pc = "notfound"]
     ELSE \E r \in Responses(RouteOf(http.req)) :
            http' = [http EXCEPT !.pc = "done", !.by = "handler",
                                 !.handler = RouteOf(http.req),
                                 !.status = r.status, !.body = r.body]
  /\ UNCHANGED server /\ Unchanged

\* app.use((req, res) => res.status(404).json({ error: 'Route not found' }))
notFound ==
  /\ \/ http.pc = "notfound"
     \/ /\ Parsed /\ ~UnderApi(http.req.path)
        /\ ~(http.req.method = "GET" /\ http.req.path = "/health")
  /\ Send("notFound", [status |-> 404, body |-> [error |-> "Route not found"]])
  /\ UNCHANGED server /\ Unchanged

NextApp ==
  \/ receive
  \/ preflight
  \/ bodyError
  \/ health
  \/ apiGate
  \/ authenticateIntra
  \/ authenticateSession
  \/ route
  \/ notFound

SpecApp == InitApp /\ [][NextApp]_vars


(***************************************************************************)
(* The duration codec: the day durations of a LocationStats document are   *)
(* "HH:MM:SS" texts; the dashboard and the student detail handler parse    *)
(* them, the dashboard formats a total back into a text.                   *)
(***************************************************************************)
\* Second counts that "HH:MM:SS" can hold.
SecondCounts ==
  {h * 3600 + m * 60 + s : h \in {0, 1, 10, 99}, m \in {0, 1, 59},
                           s \in {0, 1, 45, 59}}

\* String(k).padStart(2, '0')
PadStart2(k) == IF k < 10 THEN <<"0">> \o NumText(k) ELSE NumText(k)

\* The "HH:MM:SS" text LocationStats holds for a presence of n seconds.
StoredText(n) ==
  PadStart2(n \div 3600) \o <<":">> \o PadStart2((n % 3600) \div 60)
    \o <<":">> \o PadStart2(n % 60)

\* Day values that are no duration: 'bad', the empty string, null, a text
\* with a part that is no number, a text without its last part.
MalformedDays ==
  {<<"b", "a", "d">>, <<>>, <<"a", "b", ":", "3", "0", ":", "0", "0">>,
   <<"1", "2", ":", "x">>}

\* A day value: null, or a string.
NullDay == [null |-> TRUE, chars |-> <<>>]

Str(chars) == [null |-> FALSE, chars |-> chars]

InitCodec ==
  /\ students = [l \in Logins |-> DefaultStudent(l)]
  /\ projects = DefaultProjects
  /\ locationstats = DefaultLocations
  /\ feedbacks = DefaultFeedbacks
  /\ patronages = DefaultPatronages
  /\ query \in {q \in PlainQueries : q.order = "asc" /\ q.limit = NumText(MaxLimit)}
  /\ call = NoCall /\ resp = NoResp /\ acc = NoAcc /\ io = NoIo
  /\ server = NoServer /\ http = NoHttp
  /\ codec = NoCodec

\* parseInt(parts[i]) || 0 (parts[i] is undefined past the last part).
PartOrZero(parts, i) ==
  IF i > Len(parts) \/ ParseInt(parts[i]).nan THEN 0 ELSE ParseInt(parts[i]).val

\* if (!durationStr || durationStr === "00:00:00") continue;
Skipped(durationStr) ==
  \/ durationStr.null
  \/ durationStr.chars = <<>>
  \/ durationStr.chars = StoredText(0)

\* dashboard.js, timeByStudent: the minutes a day adds to totalMinutes.
DashboardMinutes(durationStr) ==
  IF Skipped(durationStr) THEN 0
  ELSE LET parts == Split(durationStr.chars, ":")
       IN PartOrZero(parts, 1) * 60 + PartOrZero(parts, 2)

\* students.js, logTimes: the duration of a day in minutes.
LogTimeMinutes(durationStr) ==
  IF Skipped(durationStr) THEN 0
  ELSE LET parts == Split(durationStr.chars, ":")
       IN PartOrZero(parts, 1) * 60 + PartOrZero(parts, 2)
            + (PartOrZero(parts, 3) \div 60)

\* dashboard.js, topLocationStats: totalDuration of totalMinutes.
TotalDuration(totalMinutes) ==
  PadStart2(totalMinutes \div 60) \o <<":">> \o PadStart2(totalMinutes % 60)
    \o <<":", "0", "0">>

UnchangedByCodec ==
  UNCHANGED <<students, projects, locationstats, feedbacks, patronages, query,
              call, resp, acc, io, server, http>>

\* A day of a LocationStats document: the text of a second count, or a
\* value that is no duration.
day ==
  /\ codec.stage \in {"idle", "parsed", "formatted", "reparsed"}
  /\ \/ \E n \in SecondCounts :
          codec' = [NoCodec EXCEPT !.stage = "stored", !.seconds = n,
                                   !.text = Str(StoredText(n))]
     \/ \E bad \in {NullDay} \cup {Str(chars) : chars \in MalformedDays} :
          codec' = [NoCodec EXCEPT !.stage = "stored", !.text = bad]
  /\ UnchangedByCodec

\* The dashboard parses the day.
parseDashboard ==
  /\ codec.stage = "stored"
  /\ codec' = [codec EXCEPT !.stage = "parsed",
                            !.minutes = DashboardMinutes(codec.text)]
  /\ UnchangedByCodec

\* The student detail handler parses the day.
parseLogTimes ==
  /\ codec.stage = "stored"
  /\ codec' = [codec EXCEPT !.stage = "parsed",
                            !.minutes = LogTimeMinutes(codec.text)]
  /\ UnchangedByCodec

\* if (totalMinutes > 0) the total is kept, and formatted for the answer.
format ==
  /\ codec.stage = "parsed" /\ codec.minutes > 0
  /\ codec' = [codec EXCEPT !.stage = "formatted",
                            !.formatted = TotalDuration(codec.minutes)]
  /\ UnchangedByCodec

\* The formatted total is parsed again, by either parser.
reparse ==
  /\ codec.stage = "formatted"
  /\ \E m \in {DashboardMinutes(Str(codec.formatted)),
                LogTimeMinutes(Str(codec.formatted))} :
       codec' = [codec EXCEPT !.stage = "reparsed", !.reparsed = m]
  /\ UnchangedByCodec

NextCodec ==
  \/ day
  \/ parseDashboard
  \/ parseLogTimes
  \/ format
  \/ reparse

SpecCodec == InitCodec /\ [][NextCodec]_vars


(***************************************************************************)
(* Properties.                                                             *)
(***************************************************************************)
\* The last call returned a result (not an error response).
Returned == call.fn # "none" /\ resp.status = 200

\* The sort key the last call ranked by.
RankedBy == IF call.fn = "studentsList" THEN validateSort(call.sort) ELSE call.sort

\* The rows of the last call's ranked query with LIMIT / OFFSET removed.
RankedRows ==
  CASE call.fn = "loginbasesort" ->
         loginbasesortQuery(CampusArg, query.status, PoolArg).rows
    [] call.fn = "projectcheatsort" ->
         projectcheatsortQuery(CampusArg, query.status, PoolArg).rows
    [] call.fn = "projectcountsort" ->
         projectcountsortQuery(CampusArg, query.status, PoolArg).rows
    [] call.fn = "projectnewcheatsort" ->
         projectnewcheatsortQuery(CampusArg, query.status, PoolArg,
                                  query.order).rows
    [] call.fn = "familybasesort" ->
         familybasesortQuery(CampusArg, query.status, PoolArg).rows
    [] call.fn = "logtimesort" ->
         logtimesortQuery(CampusArg, query.status, PoolArg).rows
    [] call.fn = "feedbackcountsort" ->
         feedbackcountsortQuery(CampusArg, query.status, PoolArg).rows
    [] call.fn = "averageratesort" ->
         averageratesortQuery(CampusArg, query.status, PoolArg).rows
    [] call.fn = "studentsList" ->
         studentsPipeline(RankedBy, CampusArg, query.status, PoolArg).rows
    [] OTHER -> {}

RankedLogins == {r.login : r \in RankedRows}

ReturnedRows == {resp.students[i] : i \in 1..Len(resp.students)}

DerivedKeys ==
  {"cheat_count", "project_count", "godfather_count", "children_count",
   "log_time", "feedback_count", "avg_rating"}

\* C1: once the pages 1..totalPages of one ranking have been fetched with the
\* same filter, sort key, order and page size against the unchanged snapshot,
\* their concatenation holds every student of the ranked population exactly
\* once (no student on two pages, none missing).
C1_PagesPartitionPopulation ==
  /\ (Returned /\ resp.pagination.totalPages = 0) => RankedLogins = {}
  /\ (Returned /\ acc.pages >= 1 /\ acc.pages = resp.pagination.totalPages) =>
       /\ \A i, j \in 1..Len(acc.logins) : i # j => acc.logins[i] # acc.logins[j]
       /\ {acc.logins[i] : i \in 1..Len(acc.logins)} = RankedLogins

\* C2: for a derived sort key, pagination.total is the number of distinct
\* students of the ranked query without LIMIT / OFFSET.
C2_TotalIsRankedPopulation ==
  (Returned /\ RankedBy \in DerivedKeys) =>
    resp.pagination.total = Cardinality(RankedLogins)


\* The last call ranked by cheat_count.
CheatRanking == Returned /\ RankedBy = "cheat_count"

\* C3: ranking by cheat_count never returns a student without a project
\* record of score -42, and every returned cheat_count is the number of the
\* student's records whose score is exactly -42, retries counted separately.
C3_CheatCountExact ==
  CheatRanking =>
    \A r \in ReturnedRows :
      /\ \E p \in projects : p.login = r.login /\ p.score = -42
      /\ r.cheat_count =
           Cardinality({p \in projects : p.login = r.login /\ p.score = -42})

\* C3 witness: a cheat_count ranking has returned a student with two score
\* -42 records, from a snapshot where another student has project records but
\* none of score -42.
C3_Witness ==
  /\ CheatRanking
  /\ \E r \in ReturnedRows :
       /\ r.cheat_count = 2
       /\ \E p \in projects :
            /\ p.login # r.login
            /\ \A o \in projects : o.login = p.login => o.score # -42

\* The average that an avg_rating field carries (directly, or as the only
\* value of the sub-select's object).
AvgValue(v) == IF "dollar1" \in DOMAIN v THEN v.dollar1 ELSE v

\* The non-null ratings given to a student as the evaluated party.
RatingsOf(login) == {f \in feedbacks : f.evaluated = login /\ f.rating # NULL}

\* C4: ranking by avg_rating returns every student that satisfies the filter;
\* a student without a non-null rating has avg_rating 0, every other student
\* the arithmetic mean of the non-null ratings received as evaluated party.
C4_AvgRatingZeroForUnrated ==
  (Returned /\ RankedBy = "avg_rating") =>
    /\ resp.pagination.total =
         Cardinality(IF call.fn = "studentsList"
                     THEN Matched(CampusArg, query.status, PoolArg)
                     ELSE Filtered(CampusArg, query.status, PoolArg))
    /\ \A r \in ReturnedRows :
         /\ ~AvgValue(r.avg_rating).null
         /\ AvgValue(r.avg_rating).sum * Cardinality(RatingsOf(r.login)) =
              AvgValue(r.avg_rating).n *
                SumOver([f \in RatingsOf(r.login) |-> f.rating], RatingsOf(r.login))

\* The text has the form HH:MM:SS with numeric parts.
WellFormed(d) ==
  /\ Len(d) = 8
  /\ d[3] = ":" /\ d[6] = ":"
  /\ \A i \in {1, 2, 4, 5, 7, 8} : IsDigit(d[i])

\* Seconds of a well-formed "HH:MM:SS" (0 for any other text).
HMS(d) ==
  IF WellFormed(d)
  THEN (10 * DigitVal(d[1]) + DigitVal(d[2])) * 3600
         + (10 * DigitVal(d[4]) + DigitVal(d[5])) * 60
         + 10 * DigitVal(d[7]) + DigitVal(d[8])
  ELSE 0

\* The seconds of a student's own location history, over all months.
HistorySeconds(login) ==
  LET own == {<<l, mn>> \in locationstats \X {MonthNames[i] : i \in 1..Len(MonthNames)} :
                l.login = login /\ mn \in DOMAIN l.months}
  IN SumOver([x \in own |-> HMS(x[1].months[x[2]].totalDuration)], own)

\* C5: every log_time of a log_time ranking is the total of the student's own
\* location history in seconds, whatever the other collections hold (so also
\* whatever the number of the student's score -42 records).
C5_LogTimeIsOwnHistory ==
  (Returned /\ RankedBy = "log_time") =>
    \A r \in ReturnedRows : r.log_time = HistorySeconds(r.login)

\* C6: every project_count of a project_count ranking is the number of the
\* student's records with status 'success'; other statuses are not counted.
C6_ProjectCountSuccessOnly ==
  (Returned /\ RankedBy = "project_count") =>
    \A r \in ReturnedRows :
      r.project_count =
        Cardinality({p \in projects : p.login = r.login /\ p.status = "success"})

\* C7: a call repeated with the same filter, sort key, order, page and page
\* size against the unchanged snapshot returns the same students in the same
\* order, also among students that share the value of the sort field.
C7_RepeatedCallSameOrder ==
  [][(Returned /\ call' = call /\ resp'.status = 200) =>
       resp'.students = resp.students]_vars


\* C8: every returned pagination object has total >= 0 and totalPages equal
\* to ceil(total / limit), and its page and limit are the ones the offset was
\* computed from: the returned rows are the window (page - 1) * limit + 1 ..
\* page * limit of the ranked rows.
C8_PaginationArithmetic ==
  Returned =>
    LET p == resp.pagination
        rest == Cardinality(RankedRows) - (p.page - 1) * p.limit
    IN /\ p.total >= 0
       /\ p.limit >= 1
       /\ p.totalPages * p.limit >= p.total
       /\ (p.totalPages - 1) * p.limit < p.total
       /\ p.page = call.page
       /\ Len(resp.students) = IF rest < 0 THEN 0 ELSE Min(p.limit, rest)

\* C8 witness: a result whose total is no multiple of the page size.
C8_Witness ==
  /\ Returned
  /\ resp.pagination.total % resp.pagination.limit # 0
  /\ resp.pagination.totalPages = (resp.pagination.total \div resp.pagination.limit) + 1
  /\ Len(resp.students) > 0

\* C9: with a campus id n that validateCampusId accepts, 0 included, every
\* returned student has campusId n.
C9_CampusFilterExact ==
  \A n \in 0..9 :
    (Returned /\ query.campusId = <<Digits[n + 1]>>) =>
      /\ validateCampusId(query.campusId) = [ok |-> TRUE, value |-> n]
      /\ \A r \in ReturnedRows : r.campusId = n

\* C10: with status cadet or transcender every returned student has the
\* matching grade and the active flag true.
C10_GradeStatusNeedsActive ==
  (Returned /\ query.status \in {"cadet", "transcender"}) =>
    \A r \in ReturnedRows :
      /\ r.active
      /\ IF query.status = "cadet" THEN r.grade \in {"cadet", "Cadet"}
         ELSE r.grade \in {"transcender", "Transcender"}

\* The rankings whose population is the filtered population itself (no join
\* narrows it).
PopulationRanking ==
  /\ Returned
  /\ call.fn \in {"loginbasesort", "projectcountsort", "feedbackcountsort",
                  "averageratesort", "studentsList"}
  /\ RankedBy # "cheat_count"

\* The result holds the whole ranked population (one page).
WholeResult == call.page = 1 /\ resp.pagination.totalPages <= 1

\* The value of the flag a single-flag status tests.
FlagValue(s, status) == s[OwnFlag(status)]

LiteralIn(text, value) == Contains(LowerCase(value), LowerCase(text), {})

\* The students a search text must select: the filtered population when the
\* text is empty, else those with the text in one of the five fields.
SearchMatches(s, text) ==
  text # <<>> =>
    \/ LiteralIn(text, LoginText(s.login))
    \/ LiteralIn(text, s.first_name)
    \/ LiteralIn(text, s.last_name)
    \/ LiteralIn(text, s.displayname)
    \/ LiteralIn(text, s.email)

\* C12: with the sanitized search text s, the returned students are exactly
\* those with the lower-cased s as a literal substring of the lower-cased
\* login, first_name, last_name, displayname or email ('.', '_' and '-' match
\* only themselves); an empty text selects every student.
C12_SearchIsLiteralSubstring ==
  (PopulationRanking /\ WholeResult /\ query.status = "none"
     /\ query.campusId = <<>>) =>
    {r.login : r \in ReturnedRows} =
      {l \in Logins : SearchMatches(students[l], SearchArg)}

\* The text is the decimal notation of an integer in [2000, 2100].
WholeYear(cs) ==
  /\ cs # <<>>
  /\ DigitPrefix(cs) = Len(cs)
  /\ DigitsVal(cs) >= 2000 /\ DigitsVal(cs) <= 2100

\* C13: every pool year that reaches a ranking query is the digits of an
\* integer in [2000, 2100] and nothing else; a request with any other year
\* text is refused with a validation error.
C13_PoolYearIsWholeInteger ==
  call.fn # "none" =>
    /\ (Returned /\ PoolArg # NoPool) => WholeYear(PoolArg.year)
    /\ (query.pool.year # <<>> /\ ~WholeYear(query.pool.year)) =>
         resp.status = 400

\* The session's query constrains nothing but the pool.
PoolOnly ==
  query.campusId = <<>> /\ query.search = <<>> /\ query.status = "none"

WholeCampusId(cs) ==
  /\ cs # <<>>
  /\ DigitPrefix(cs) = Len(cs)
  /\ DigitsVal(cs) <= 999999

\* C15: validateCampusId returns null for an absent value and for 'all', n
\* for the decimal notation of an integer n in [0, 999999], and raises a
\* validation error (the request is refused) for every other text.
C15_CampusIdWholeInteger ==
  call.fn # "none" =>
    IF query.campusId \in {<<>>, <<"a", "l", "l">>}
    THEN CampusOk /\ CampusArg = NULL
    ELSE IF WholeCampusId(query.campusId)
    THEN CampusOk /\ CampusArg = DigitsVal(query.campusId)
    ELSE resp.status = 400

\* C16: the text validateSearch returns has at most 100 characters, each a
\* letter, a digit, the space character, '.', '_' or '-'; an empty input
\* gives the empty text.
C16_SearchSanitized ==
  call.fn # "none" =>
    /\ Len(SearchArg) <= 100
    /\ \A i \in 1..Len(SearchArg) :
         \/ IsLower(SearchArg[i]) \/ IsUpper(SearchArg[i]) \/ IsDigit(SearchArg[i])
         \/ SearchArg[i] \in {" ", ".", "_", "-"}
    /\ query.search = <<>> => SearchArg = <<>>

\* C17: a request to the list handler whose sort key is none of login,
\* level, wallet, correction_point, project_count, cheat_count,
\* godfather_count, children_count, log_time, feedback_count, avg_rating is
\* answered with HTTP 400 (and so with no ranking or count query).
C17_UnknownSortKeyRefused ==
  (call.fn = "studentsList" /\ call.sort \notin HandlerSortFields) =>
    resp.status = 400

\* The offset the list handler computed for the last request.
HandlerOffset == (call.page - 1) * Min(validateLimit(query.limit), 50)

\* C18: for every page and limit text, the list handler either refuses the
\* request with a validation error or uses an offset (page - 1) * limit in
\* [0, 100000].
C18_HandlerOffsetBounded ==
  call.fn = "studentsList" =>
    \/ resp.status = 400
    \/ (HandlerOffset >= 0 /\ HandlerOffset <= 100000)

\* The limit a text asks for: the number its leading digits denote, 0 for a
\* text that starts with no digit (missing, not numeric, negative).
AskedLimit(cs) == DigitsVal(SubSeq(cs, 1, DigitPrefix(cs)))

\* C19: validateLimit returns an integer in [1, 500]: 50 for a missing or
\* non-numeric text or a number below 1, 500 for a number above 500, the
\* parsed number otherwise; the limit the list handler uses is in [1, 50].
C19_LimitClamped ==
  call.fn = "studentsList" =>
    LET v == validateLimit(query.limit)
        n == AskedLimit(query.limit)
    IN /\ v >= 1 /\ v <= 500
       /\ v = IF n < 1 THEN 50 ELSE IF n > 500 THEN 500 ELSE n
       /\ resp.status = 200 =>
            /\ resp.pagination.limit >= 1 /\ resp.pagination.limit <= 50
            /\ resp.pagination.limit = Min(v, 50)

\* C19 witness: the handler has answered a request whose limit text asks for
\* more than 500 with a result of limit 50.
C19_Witness ==
  /\ call.fn = "studentsList" /\ resp.status = 200
  /\ AskedLimit(query.limit) > 500
  /\ resp.pagination.limit = 50
  /\ Len(resp.students) > 0

\* The monthly durations of a student's location history.
MonthTotals(login) ==
  {<<l, mn>> \in locationstats \X {MonthNames[i] : i \in 1..Len(MonthNames)} :
     l.login = login /\ mn \in DOMAIN l.months}

\* Some location record of the snapshot holds a malformed duration.
HasMalformed ==
  \E l \in Logins : \E x \in MonthTotals(l) :
    ~WellFormed(x[1].months[x[2]].totalDuration)

\* The seconds of a student's history, a malformed entry counting 0.
WellFormedSeconds(login) ==
  LET own == {x \in MonthTotals(login) :
                WellFormed(x[1].months[x[2]].totalDuration)}
  IN SumOver([x \in own |-> HMS(x[1].months[x[2]].totalDuration)], own)

\* C20: a log_time ranking over a snapshot with a malformed duration text
\* completes; the malformed entry counts 0 in its student's log_time, and
\* every student's log_time is the total of the well-formed entries.
C20_MalformedDurationCountsZero ==
  (call.fn # "none" /\ RankedBy = "log_time" /\ HasMalformed) =>
    /\ resp.status = 200
    /\ \A r \in ReturnedRows : r.log_time = WellFormedSeconds(r.login)

\* The invocation has ended in an error: a rejected promise of an aggregator,
\* the 500 response of the list handler.
Failed == resp.thrown # "" \/ resp.status = 500

\* C21: an invocation that reaches the store issues exactly two queries, the
\* ranked one and the count one, in one step, and never another; a result is
\* produced only when both have completed; when one of them fails the
\* invocation fails with the error of the first that failed (an aggregator's
\* promise is rejected with it, the list handler answers 500 with its
\* message) and no row and no pagination is returned.
C21_TwoReadsAllOrNothing ==
  /\ io.issued \in {0, 2}
  /\ io.issued = 2 <=> (io.ranked # "none" /\ io.count # "none")
  /\ io.issued = 0 <=> (io.ranked = "none" /\ io.count = "none")
  /\ (call.fn # "none" /\ resp.status # 400) => io.issued = 2
  /\ resp.status = 200 => (io.ranked = "done" /\ io.count = "done")
  /\ io.error # "" <=> (io.ranked = "failed" \/ io.count = "failed")
  /\ (call.fn # "none" /\ ~Awaiting /\ io.error # "") =>
       /\ Failed
       /\ resp.students = <<>> /\ resp.pagination = NoResp.pagination
       /\ IF call.fn = "studentsList" THEN resp.body.message = io.error
          ELSE resp.thrown = io.error
  /\ Failed => io.error # ""

\* C21 witness: the count query of an aggregator has failed after its ranked
\* query had completed, and the promise is rejected with the count query's
\* error.
C21_Witness ==
  /\ call.fn \in Aggregators
  /\ io.ranked = "done" /\ io.count = "failed"
  /\ resp.thrown = "count query failed"

\* A validator of the list handler throws on the session's query string.
ValidatorRaises ==
  \/ ~validateCampusId(query.campusId).ok
  \/ ~validatePool(query.pool.year, query.pool.month).ok
  \/ ~validateStatus(query.status).ok

\* C22: a request to the list handler on which a validator throws is
\* answered 400 with a body of the two fields error and message, and the
\* request issues no store query and writes no event-log entry.
C22_ValidationRefusesBeforeWork ==
  (call.fn = "studentsList" /\ ValidatorRaises) =>
    /\ resp.status = 400
    /\ DOMAIN resp.body = {"error", "message"}
    /\ resp.body.error = "Bad Request" /\ resp.body.message # ""
    /\ resp.students = <<>>
    /\ io.issued = 0 /\ io.ranked = "none" /\ io.count = "none"
    /\ io.events = 0

\* C22 witness: a request with an unknown status, and nothing else wrong, has
\* been refused.
C22_Witness ==
  /\ call.fn = "studentsList" /\ query.status = "graduated"
  /\ resp.status = 400 /\ resp.body.message = "Invalid status filter"
  /\ io = NoIo

\* C23: every returned row carries exactly one derived field, the one the
\* requested sort key names, and none when the sort key is a stored field
\* (login, level, wallet, correction_point); no row carries the derived field
\* of another sort key.
C23_OneDerivedFieldPerRow ==
  Returned =>
    \A r \in ReturnedRows :
      DOMAIN r \cap DerivedKeys =
        IF RankedBy \in DerivedKeys THEN {RankedBy} ELSE {}

\* The request has been answered.
Answered == http.pc = "done"

\* C24: a request under /api that is no OPTIONS preflight reaches its route
\* handler only after authenticate accepted a Bearer token for it; without
\* a Bearer token the answer is 401 and no handler runs; only /health is
\* served without authentication.
C24_ApiBehindAuthenticate ==
  Answered =>
    /\ (http.by = "handler" => http.accepted /\ http.req.scheme = "Bearer")
    /\ (http.by \in {"handler", "health"} /\ ~http.accepted =>
          http.req.path = "/health")
    /\ (/\ UnderApi(http.req.path) /\ http.req.method # "OPTIONS"
        /\ http.req.body = "" /\ http.req.scheme # "Bearer"
        => http.status = 401 /\ http.by = "authenticate")

\* The same with the two public review paths of part_006 set aside.
C24_BehindAuthenticateButPublicPaths ==
  PublicPath(http.req.path) \/ C24_ApiBehindAuthenticate

\* C25: every error response (400, 401, 403, 404, 500, 503), whichever
\* handler or middleware sends it, is a JSON object with the fields error
\* and message.
C25_ErrorBodyShape ==
  Answered /\ http.status >= 400 =>
    /\ http.status \in {400, 401, 403, 404, 500, 503}
    /\ {"error", "message"} \subseteq DOMAIN http.body

\* The same with the 404 responses set aside.
C25_ErrorBodyShapeBut404 ==
  http.status = 404 \/ C25_ErrorBodyShape

\* The session-based authenticate has acted on the request.
SessionChecked == server.auth = "session" /\ http.nexts + http.sent > 0

\* The sessions with the presented Bearer token that have not expired when
\* the request arrives.
Presented ==
  {s \in server.sessions :
     /\ http.req.scheme = "Bearer" /\ s.sessionToken = http.req.token
     /\ s.expiresAt > http.now}

\* The login has a ban record that is permanent or unexpired at time t.
Banned(login, t) ==
  \E b \in server.bans :
    b.login = login /\ (b.expiresAt = NULL \/ b.expiresAt > t)

\* authenticate answered the request itself, with this status.
Denied(status) == http.by = "authenticate" /\ http.status = status

\* Exactly one of next() and one error response; next() only for an
\* unexpired session of a login without a ban, with req.user its userData.
SessionGate ==
  /\ http.nexts + http.sent = 1
  /\ http.sent = 1 => Denied(401) \/ Denied(403) \/ Denied(500)
  /\ http.nexts = 1 =>
       /\ http.accepted
       /\ \E s \in Presented :
            ~Banned(s.login, http.now + 1) /\ http.user = s.userData

\* C28 as stated: exactly one of next() and an error response (401, 403,
\* 500); next() only for an unexpired session of a login without a ban, with
\* req.user the session's userData; a banned login is always answered 403
\* and an unknown or expired token always 401.
C28_SessionAuthenticateAlways ==
  SessionChecked =>
    /\ SessionGate
    /\ (\E s \in Presented : Banned(s.login, http.now + 1)) => Denied(403)
    /\ Presented = {} => Denied(401)

\* C28 amended: the same, the 403 of a banned login and the 401 of an
\* unknown or expired token being sent when no store operation fails; a
\* failing store operation is answered 500.
C28_SessionAuthenticate ==
  SessionChecked =>
    /\ SessionGate
    /\ http.fault = "" =>
         /\ (\E s \in Presented : Banned(s.login, http.now + 1)) => Denied(403)
         /\ Presented = {} => Denied(401)
    /\ http.fault # "" => Denied(500)

\* A permanently banned login presents its unexpired session: 403.
C28_Witness ==
  /\ SessionChecked /\ Denied(403)
  /\ \E s \in Presented :
       /\ \E b \in server.bans : b.login = s.login /\ b.expiresAt = NULL
       /\ \A b \in server.bans : b.login = s.login /\ b.expiresAt # NULL =>
                                   b.expiresAt <= http.now

\* The day has been parsed.
DayParsed == codec.stage \in {"parsed", "formatted", "reparsed"}

\* C26: the duration text of n seconds parses to n (the parsers count in
\* minutes: to the minutes that make n seconds), the formatted total parses
\* to the total, and the malformed durations 'bad', '' and null parse to 0.
C26_DurationRoundTrip ==
  /\ DayParsed /\ codec.seconds # NULL => codec.minutes * 60 = codec.seconds
  /\ DayParsed /\ codec.text \in {NullDay, Str(<<>>), Str(<<"b", "a", "d">>)} =>
       codec.minutes = 0
  /\ codec.stage = "reparsed" => codec.reparsed = codec.minutes

\* The same for the second counts that are whole minutes.
C26_RoundTripOfWholeMinutes ==
  (codec.seconds # NULL /\ codec.seconds % 60 # 0) \/ C26_DurationRoundTrip

\* The distinct mentees and mentors of a student, from either encoding: the
\* student's own document, or the documents that name the student.
Mentees(login) ==
  UNION {p.children : p \in {x \in patronages : x.login = login}}
    \cup {p.login : p \in {x \in patronages : login \in x.godfathers}}

Mentors(login) ==
  UNION {p.godfathers : p \in {x \in patronages : x.login = login}}
    \cup {p.login : p \in {x \in patronages : login \in x.children}}

\* The students the last call's filter lets through.
Population ==
  IF call.fn = "studentsList" THEN Matched(CampusArg, query.status, PoolArg)
  ELSE Filtered(CampusArg, query.status, PoolArg)

\* C27: a ranking by children_count holds every student of the filter with
\* at least one mentee, mentored or not, and the children_count of a row is
\* the number of the student's distinct mentees; a ranking by
\* godfather_count gives the number of the student's distinct mentors.
C27_FamilyCounts ==
  Returned /\ RankedBy \in {"children_count", "godfather_count"} =>
    /\ RankedBy = "children_count" =>
         \A s \in Population : Mentees(s.login) # {} => s.login \in RankedLogins
    /\ \A r \in ReturnedRows :
         IF RankedBy = "children_count"
         THEN r.children_count = Cardinality(Mentees(r.login))
         ELSE r.godfather_count = Cardinality(Mentors(r.login))

\* The same for the list handler alone.
C27_FamilyCountsOfHandler ==
  call.fn = "studentsList" => C27_FamilyCounts

\* C29: in every row of every ranking, whatever the sort key, has_cheats is
\* the boolean true when the student has a project record of score -42 and
\* the boolean false when the student has none.
C29_HasCheatsIsCheatFlag ==
  Returned =>
    \A r \in ReturnedRows :
      /\ r.has_cheats \in BOOLEAN
      /\ r.has_cheats <=> \E p \in projects : p.login = r.login /\ p.score = -42

\* Rows of a cheater and of a student without a score -42 record in one
\* answer of a ranking that is not by cheats.
C29_Witness ==
  /\ Returned /\ RankedBy \notin {"cheat_count", "cheat_date"}
  /\ \E r1, r2 \in ReturnedRows : r1.has_cheats /\ ~r2.has_cheats
  /\ \E p \in projects : p.score # -42

\* The list handler answered from the default branch of its sort switch.
InvalidSortField ==
  /\ call.fn = "studentsList" /\ resp.status = 400
  /\ resp.body.message = "Invalid sort field"

\* C30: no request to the list handler whose sortBy validateSort returns
\* unchanged ends in the 'Invalid sort field' 400 of the default branch.
C30_AcceptedSortKeyServed ==
  call.fn = "studentsList" /\ validateSort(call.sort) = call.sort =>
    ~InvalidSortField

\* The sort keys of validateSort that the switch of the handler has no case
\* for.
UnservedSortKeys ==
  {"first_name", "last_name", "displayname", "pool_month", "pool_year",
   "evo_performance"}

\* The same with those sort keys set aside.
C30_ServedButUnservedKeys ==
  call.sort \in UnservedSortKeys \/ C30_AcceptedSortKeyServed

====
